---- MODULE Spec2Model ----
(***************************************************************************)
(* archi-pdf: the interactive correction controller (EditorModal.tsx) and  *)
(* the batch autocrop / undo handlers of the application shell (App).      *)
(*                                                                         *)
(* Numbers: native pixel coordinates and screen coordinates are JavaScript *)
(* doubles in the source; here they are integers and every quotient is     *)
(* taken with \div (fixed point, one unit = one pixel).  The zoom factor   *)
(* is the IEEE-754 double the source holds, kept exactly as a whole number *)
(* of units of 2^-55 in two limbs, <<hi, lo>> = hi * 2^27 + lo; geometry   *)
(* takes it to the nearest fifth (FifthsOf).                               *)
(* A URL is a sequence: <<name>> for a source file, with one tag appended  *)
(* by every transform that produced a new image from it.                   *)
(***************************************************************************)
EXTENDS Integers, Sequences, FiniteSets, TLC

VARIABLES
    \* ---- EditorModal (one mounted editor session) ----
    isOpen,            \* the modal is mounted (App renders it while editingItem # null)
    itemUrl,           \* props.item.url
    history,           \* useState<string[]>([])
    currentIndex,      \* useState(-1); an index into history counted from 1, 0 for -1
    isProcessing,      \* useState(false)
    activeTool,        \* useState<Tool>('crop')
    points,            \* useState<Point[] | null>(null): 4 points, <<>> for null
    isDragging,        \* useState(false)
    dragInfo,          \* useState<{index,type} | null>(null): the corner index 1..4, 0 for null
    brightness,        \* useState(100)
    contrast,          \* useState(100)
    rotation,          \* useState(0)
    zoom,              \* useState(1), a double <<hi, lo>>
    isPanning,         \* useState(false)
    isSpacePressed,    \* useState(false)
    spaceHeld,         \* the Space key is down (the keyboard's state, not the component's)
    panStartRef,       \* useRef({x:0,y:0})
    scrollStartRef,    \* useRef({left:0,top:0})
    dragStartPosRef,   \* useRef({x:0,y:0})
    initialPointsRef,  \* useRef<Point[] | null>(null): 4 points, <<>> for null
    scroll,            \* containerRef.current.scrollLeft / scrollTop
    imageLoaded,       \* the <img> has fired onLoad for the current src
    sessions,          \* pointer sessions (drag or pan) started since the modal mounted
    lastEvent,         \* the pointer event delivered last: "none", "down" ("ignored"
                       \* when the handler returned at its first test), "move" or "up"
    moved,             \* the unclamped position the latest corner move of the session
                       \* asked for: <<p>>, or << >> when the session has moved no corner
    detecting,         \* handlePerformAutoDetection is awaiting detectDocumentCorners
    detectLog,         \* <<what the awaited detectDocumentCorners resolved to>>, << >> before
    pendingSaves,      \* the transform calls awaited by handleSave invocations; stale:
                       \* the invocation belongs to a modal that has unmounted since
    saveLog,           \* the handleSave in progress or completed last: its inputs and calls
    onUpdateArg,       \* the url of the item last passed to props.onUpdate, <<>> for none
    \* ---- App (batch autocrop and undo) ----
    documents,         \* useState<DocumentGroup[]>
    batchHistory,      \* useState<DocumentGroup[] | null>(null): <<>> for null
    appIsProcessing,   \* App's useState isProcessing
    tasks,             \* handleBatchAutoCrop: const tasks (empty once the handler has returned)
    nextDocId,         \* Date.now(): the id the next document group gets
    nextItemId,        \* the id the next added item gets (a fresh random string)
    calls,             \* indices of the tasks whose autoCropImage call is in flight
    successCount,      \* handleBatchAutoCrop: let successCount (0 once the handler has returned)
    toast,             \* useState toast: the message kind last shown
    preBatch,          \* the working set as it was when the latest batch started
    batchLog,          \* per task of the latest batch: how its call ended
    moves,             \* items moved between or within columns (handleMoveItem)
    closures,          \* the items held by handlers that are not done: editingItem and
                       \* the `item` of each handleRotateItem awaiting its image
    batches,           \* batches started (handleBatchAutoCrop past its early return)
    lastOp,            \* what the App handler that ran last did
    \* ---- cvService (one call of an exported function at a time) ----
    engineReady,       \* window.cv && cv.imread && cv.Mat && window.cvReady !== false
    cvFn,              \* the function running: "none", "detect", "crop"
    cvPc,              \* "idle", "check" (in waitForCV), "sleep" (awaiting its timer),
                       \* "load" (awaiting img.onload / img.onerror), "done"
    retries,           \* waitForCV's parameter
    waits,             \* the 100 ms timers waitForCV has awaited in this call
    cvArgs,            \* what the image event of the call was given and whether its
                       \* handler threw (<< >> before the event)
    stages,            \* the detection pipelines whose contour search has returned
    live,              \* the mats allocated by the call and not deleted
    cvResult,          \* what the promise settled with
    cvOutcome          \* "pending", "resolved", "rejected"

editorVars == <<isOpen, itemUrl, history, currentIndex, isProcessing, activeTool, points, isDragging, dragInfo,
                brightness, contrast, rotation, zoom, isPanning, isSpacePressed, spaceHeld,
                panStartRef, scrollStartRef, dragStartPosRef, initialPointsRef, scroll,
                imageLoaded, sessions, lastEvent, moved, detecting, detectLog, pendingSaves,
                saveLog,
                onUpdateArg>>

appVars == <<documents, batchHistory, appIsProcessing, nextDocId, nextItemId, tasks, calls,
             successCount, toast, preBatch, batchLog, batches, moves, closures, lastOp>>

cvVars == <<engineReady, cvFn, cvPc, retries, waits, cvArgs, stages, live, cvResult,
            cvOutcome>>

vars == <<editorVars, appVars, cvVars>>

NoPoints == <<>>
NoUrl == <<>>
NoSnapshot == <<>>

Max(a, b) == IF a >= b THEN a ELSE b
Min(a, b) == IF a <= b THEN a ELSE b

(***************************************************************************)
(* Bounds of the model: the image being edited and the page layout.        *)
(***************************************************************************)
NaturalWidth == 20
NaturalHeight == 10
LayoutWidth == 80
LayoutHeight == 40
MaxScroll == 1
MaxSessions == 2
MaxRotationSteps == 4
MaxUrlLen == 3
MaxPendingSaves == 1
MaxMoves == 1
MaxDocs == 2
MaxBatches == 2
MaxDocIds == 2
MaxItems == 2
GridMax == 2
SortGridMax == 4
GridPerPixel == 3
MoveItems == 3
MaxClosures == 2

\* Program constants.
MaxRetries == 300
PollDelay == 100
DetectMaxDim == 800
HandleRadius == 25
DefaultBrightness == 100
DefaultContrast == 100
RotationStep == 90

Pt(px, py) == [x |-> px, y |-> py]

(***************************************************************************)
(* JavaScript numbers of the zoom range.  Every double in [2^-3, 8) is a   *)
(* whole number of units of 2^-55, and so is the exact sum or difference   *)
(* of two of them; the number is written <<hi, lo>> = hi * Limb + lo.      *)
(***************************************************************************)
Limb == 2 ^ 27

\* The literals 1, 0.2 and 5 as doubles (0.2 is 3602879701896397 * 2^-54).
ZoomInitial == <<268435456, 0>>
ZoomMin == <<53687091, 26843546>>
ZoomMax == <<1342177280, 0>>
ZoomStep == <<53687091, 26843546>>

DblLess(a, b) == a[1] < b[1] \/ (a[1] = b[1] /\ a[2] < b[2])

\* Variant: no clamp (the second argument is returned).
DblSecond(a, b) == b

\* Math.max / Math.min of two numbers.
DblMax(a, b) == IF DblLess(a, b) THEN b ELSE a
DblMin(a, b) == IF DblLess(b, a) THEN b ELSE a

Carry(hi, lo) == IF lo >= Limb THEN <<hi + 1, lo - Limb>> ELSE <<hi, lo>>

\* The distance between neighbouring doubles around s, in units: 2^-52 times the
\* power of two at or below s.
Grain(s) ==
    IF s[1] >= 2 ^ 30 THEN 32
    ELSE IF s[1] >= 2 ^ 29 THEN 16
    ELSE IF s[1] >= 2 ^ 28 THEN 8
    ELSE IF s[1] >= 2 ^ 27 THEN 4
    ELSE IF s[1] >= 2 ^ 26 THEN 2
    ELSE 1

\* The exact result s rounded to a double: round to nearest, ties to even.
RoundDbl(s) ==
    LET g == Grain(s)
        r == s[2] % g
        down == s[2] - r
        up == 2 * r > g \/ (2 * r = g /\ (down \div g) % 2 = 1)
    IN  IF up THEN Carry(s[1], down + g) ELSE <<s[1], down>>

\* a + b and a - b (a >= b) in double arithmetic.
DblAdd(a, b) == RoundDbl(Carry(a[1] + b[1], a[2] + b[2]))
DblSub(a, b) ==
    RoundDbl(IF a[2] >= b[2] THEN <<a[1] - b[1], a[2] - b[2]>>
             ELSE <<a[1] - b[1] - 1, a[2] + Limb - b[2]>>)

\* The number in fifths, to the nearest fifth: Math.round(z * 5).
FifthsOf(z) == (5 * (z[1] \div 16) + 2 ^ 23) \div 2 ^ 24

(***************************************************************************)
(* EditorModal: derived values.                                            *)
(***************************************************************************)
\* const currentImage = history[currentIndex] || item.url
currentImage ==
    IF currentIndex >= 1 /\ currentIndex <= Len(history) THEN history[currentIndex]
    ELSE itemUrl

\* imageRef.current.getBoundingClientRect().width: the <img> is laid out
\* LayoutWidth x LayoutHeight and drawn under scale(zoom) rotate(rotation deg).
imgRectWidth ==
    ((IF (rotation \div RotationStep) % 2 = 0 THEN LayoutWidth ELSE LayoutHeight)
        * FifthsOf(zoom)) \div FifthsOf(ZoomInitial)

\* imgRect.left / imgRect.top: the layout origin moved by the container's scroll.
imgRectLeft == 0 - scroll.left
imgRectTop == 0 - scroll.top

\* points[i].x / scale, with scale = natW / rectW
ToScreen(v) == (v * imgRectWidth) \div NaturalWidth

\* (client delta) * scale
ToNative(d) == (d * NaturalWidth) \div imgRectWidth

\* the fallback quadrilateral of handlePerformAutoDetection
DefaultQuad ==
    LET w == NaturalWidth
        h == NaturalHeight
    IN  << Pt((w * 1) \div 10, (h * 1) \div 10), Pt((w * 9) \div 10, (h * 1) \div 10),
           Pt((w * 9) \div 10, (h * 9) \div 10), Pt((w * 1) \div 10, (h * 9) \div 10) >>

\* The quadrilaterals detectDocumentCorners may resolve to for the edited image.
DetectedQuads == { << Pt(3, 2), Pt(17, 1), Pt(16, 8), Pt(4, 9) >> }

\* The inputs of the sliders and of the pointer.
BrightnessValues == {50, 100, 150}
ContrastValues == {100, 120}
MoveVectors == {Pt(-100, -100), Pt(100, -100), Pt(100, 100), Pt(-100, 100), Pt(8, -4)}
MissPoint == Pt(-200, -200)

\* The overlay shown while isProcessing covers the whole modal: no button
\* under it can be clicked.
overlayBlocks == isProcessing

(***************************************************************************)
(* EditorModal: mounting.                                                  *)
(***************************************************************************)
\* The state of a freshly mounted component: the useState / useRef defaults.
EditorDefaults ==
    /\ history' = <<>>
    /\ currentIndex' = 0
    /\ isProcessing' = FALSE
    /\ activeTool' = "crop"
    /\ points' = NoPoints
    /\ isDragging' = FALSE
    /\ dragInfo' = 0
    /\ brightness' = DefaultBrightness
    /\ contrast' = DefaultContrast
    /\ rotation' = 0
    /\ zoom' = ZoomInitial
    /\ isPanning' = FALSE
    /\ isSpacePressed' = FALSE
    /\ UNCHANGED spaceHeld
    /\ panStartRef' = Pt(0, 0)
    /\ scrollStartRef' = [left |-> 0, top |-> 0]
    /\ dragStartPosRef' = Pt(0, 0)
    /\ initialPointsRef' = NoPoints
    /\ scroll' = [left |-> 0, top |-> 0]
    /\ imageLoaded' = FALSE
    /\ sessions' = 0
    /\ lastEvent' = "none"
    /\ moved' = << >>
    /\ detecting' = FALSE
    /\ detectLog' = << >>

\* The awaited calls once the modal that made them has unmounted.
Stale(saves) == {[p EXCEPT !.stale = TRUE] : p \in saves}

\* App: handleEditItem sets editingItem, the modal mounts and its
\* useEffect([item, isOpen]) runs.
OpenEditor(url) ==
    /\ ~isOpen
    /\ isOpen' = TRUE
    /\ itemUrl' = url
    /\ history' = <<url>>
    /\ currentIndex' = 1
    /\ points' = NoPoints
    /\ isDragging' = FALSE
    /\ zoom' = ZoomInitial
    /\ activeTool' = "crop"
    /\ isPanning' = FALSE
    /\ brightness' = DefaultBrightness
    /\ contrast' = DefaultContrast
    /\ rotation' = 0
    /\ saveLog' = << >>
    /\ UNCHANGED <<isProcessing, dragInfo, isSpacePressed, spaceHeld, panStartRef, scrollStartRef,
                   dragStartPosRef, initialPointsRef, scroll, imageLoaded, sessions,
                   lastEvent, moved, detecting, detectLog, pendingSaves, onUpdateArg>>
    /\ UNCHANGED <<appVars, cvVars>>

\* The X button: onClose sets editingItem to null and the modal unmounts.
\* Variant: the modal stays mounted when it is closed (only isOpen changes).
CloseEditorKeepMounted ==
    /\ isOpen
    /\ ~overlayBlocks
    /\ isOpen' = FALSE
    /\ UNCHANGED <<itemUrl, history, currentIndex, isProcessing, activeTool, points,
                   isDragging, dragInfo, brightness, contrast, rotation, zoom, isPanning,
                   isSpacePressed, spaceHeld, panStartRef, scrollStartRef, dragStartPosRef,
                   initialPointsRef, scroll, imageLoaded, sessions, lastEvent, moved,
                   detecting, detectLog, pendingSaves, saveLog, onUpdateArg>>
    /\ UNCHANGED <<appVars, cvVars>>

CloseEditor ==
    /\ isOpen
    /\ ~overlayBlocks
    /\ isOpen' = FALSE
    /\ EditorDefaults
    /\ pendingSaves' = Stale(pendingSaves)
    /\ UNCHANGED <<itemUrl, saveLog, onUpdateArg>>
    /\ UNCHANGED <<appVars, cvVars>>

(***************************************************************************)
(* EditorModal: boundary detection on image load.                          *)
(***************************************************************************)
\* <img onLoad={handleImageLoad}>: if (!points) handlePerformAutoDetection(currentImage),
\* which runs up to its await.
handleImageLoad ==
    /\ isOpen
    /\ ~imageLoaded
    /\ imageLoaded' = TRUE
    /\ IF points = NoPoints
       THEN /\ isProcessing' = TRUE
            /\ detecting' = TRUE
       ELSE UNCHANGED <<isProcessing, detecting>>
    /\ UNCHANGED detectLog
    /\ UNCHANGED <<isOpen, itemUrl, history, currentIndex, activeTool, points, isDragging,
                   dragInfo, brightness, contrast, rotation, zoom, isPanning,
                   isSpacePressed, spaceHeld, panStartRef, scrollStartRef, dragStartPosRef,
                   initialPointsRef, scroll, sessions, lastEvent, moved, pendingSaves,
                   saveLog, onUpdateArg>>
    /\ UNCHANGED <<appVars, cvVars>>

\* Variant: no fallback (a null result is stored as it is).
handlePerformAutoDetectionNoFallback(detected) ==
    /\ isOpen
    /\ detecting
    /\ points' = detected
    /\ isProcessing' = FALSE
    /\ detecting' = FALSE
    /\ detectLog' = <<detected>>
    /\ UNCHANGED <<isOpen, itemUrl, history, currentIndex, activeTool, isDragging,
                   dragInfo, brightness, contrast, rotation, zoom, isPanning,
                   isSpacePressed, spaceHeld, panStartRef, scrollStartRef, dragStartPosRef,
                   initialPointsRef, scroll, imageLoaded, sessions, lastEvent, moved,
                   pendingSaves, saveLog, onUpdateArg>>
    /\ UNCHANGED <<appVars, cvVars>>

\* handlePerformAutoDetection after its await: detected is a quadrilateral or null.
handlePerformAutoDetection(detected) ==
    /\ isOpen
    /\ detecting
    /\ points' = IF detected # NoPoints THEN detected ELSE DefaultQuad
    /\ isProcessing' = FALSE
    /\ detecting' = FALSE
    /\ detectLog' = <<detected>>
    /\ UNCHANGED <<isOpen, itemUrl, history, currentIndex, activeTool, isDragging,
                   dragInfo, brightness, contrast, rotation, zoom, isPanning,
                   isSpacePressed, spaceHeld, panStartRef, scrollStartRef, dragStartPosRef,
                   initialPointsRef, scroll, imageLoaded, sessions, lastEvent, moved,
                   pendingSaves, saveLog, onUpdateArg>>
    /\ UNCHANGED <<appVars, cvVars>>

(***************************************************************************)
(* EditorModal: the tool buttons, the sliders, rotation and zoom.          *)
(***************************************************************************)
frameButtons == <<isOpen, itemUrl, history, currentIndex, isProcessing, points, isDragging,
                  dragInfo, isPanning, isSpacePressed, spaceHeld, panStartRef, scrollStartRef,
                  dragStartPosRef, initialPointsRef, scroll, imageLoaded, sessions,
                  lastEvent, moved, detecting, detectLog, pendingSaves, saveLog, onUpdateArg>>

\* setActiveTool(activeTool === 'crop' ? 'none' : 'crop')
ToggleCrop ==
    /\ isOpen /\ ~overlayBlocks
    /\ activeTool' = IF activeTool = "crop" THEN "none" ELSE "crop"
    /\ UNCHANGED <<brightness, contrast, rotation, zoom>>
    /\ UNCHANGED frameButtons
    /\ UNCHANGED <<appVars, cvVars>>

\* setActiveTool(activeTool === 'adjust' ? 'none' : 'adjust')
ToggleAdjust ==
    /\ isOpen /\ ~overlayBlocks
    /\ activeTool' = IF activeTool = "adjust" THEN "none" ELSE "adjust"
    /\ UNCHANGED <<brightness, contrast, rotation, zoom>>
    /\ UNCHANGED frameButtons
    /\ UNCHANGED <<appVars, cvVars>>

\* The sliders and the rotation buttons are rendered only while activeTool === 'adjust'.
SetBrightness(v) ==
    /\ isOpen /\ ~overlayBlocks
    /\ activeTool = "adjust"
    /\ brightness' = v
    /\ UNCHANGED <<activeTool, contrast, rotation, zoom>>
    /\ UNCHANGED frameButtons
    /\ UNCHANGED <<appVars, cvVars>>

SetContrast(v) ==
    /\ isOpen /\ ~overlayBlocks
    /\ activeTool = "adjust"
    /\ contrast' = v
    /\ UNCHANGED <<activeTool, brightness, rotation, zoom>>
    /\ UNCHANGED frameButtons
    /\ UNCHANGED <<appVars, cvVars>>

\* setRotation(r => r - 90)
RotateLeft ==
    /\ isOpen /\ ~overlayBlocks
    /\ activeTool = "adjust"
    /\ rotation - RotationStep >= 0 - MaxRotationSteps * RotationStep
    /\ rotation' = rotation - RotationStep
    /\ UNCHANGED <<activeTool, brightness, contrast, zoom>>
    /\ UNCHANGED frameButtons
    /\ UNCHANGED <<appVars, cvVars>>

\* setRotation(r => r + 90)
RotateRight ==
    /\ isOpen /\ ~overlayBlocks
    /\ activeTool = "adjust"
    /\ rotation + RotationStep <= MaxRotationSteps * RotationStep
    /\ rotation' = rotation + RotationStep
    /\ UNCHANGED <<activeTool, brightness, contrast, zoom>>
    /\ UNCHANGED frameButtons
    /\ UNCHANGED <<appVars, cvVars>>

\* setZoom(z => Math.max(0.2, z - 0.2))
ZoomOut ==
    /\ isOpen /\ ~overlayBlocks
    /\ zoom' = DblMax(ZoomMin, DblSub(zoom, ZoomStep))
    /\ UNCHANGED <<activeTool, brightness, contrast, rotation>>
    /\ UNCHANGED frameButtons
    /\ UNCHANGED <<appVars, cvVars>>

\* setZoom(z => Math.min(5, z + 0.2))
ZoomIn ==
    /\ isOpen /\ ~overlayBlocks
    /\ zoom' = DblMin(ZoomMax, DblAdd(zoom, ZoomStep))
    /\ UNCHANGED <<activeTool, brightness, contrast, rotation>>
    /\ UNCHANGED frameButtons
    /\ UNCHANGED <<appVars, cvVars>>

(***************************************************************************)
(* EditorModal: the pointer handlers.                                      *)
(***************************************************************************)
\* Math.hypot(clientX - px, clientY - py) < 25 / zoom for corner i, with
\* px = points[i].x / scale + imgRect.left (squared, zoom in fifths).
CornerHit(i, clientX, clientY) ==
    LET px == ToScreen(points[i].x) + imgRectLeft
        py == ToScreen(points[i].y) + imgRectTop
        dx == clientX - px
        dy == clientY - py
    IN  (dx * dx + dy * dy) * FifthsOf(zoom) * FifthsOf(zoom)
            < HandleRadius * HandleRadius * FifthsOf(ZoomInitial) * FifthsOf(ZoomInitial)

\* for (let i = 0; i < 4; i++) ... return at the first corner hit; 0 when none is
\* Variant: the last corner hit wins.
LastHit(clientX, clientY) ==
    LET hits == {i \in 1..4 : CornerHit(i, clientX, clientY)}
    IN  IF hits = {} THEN 0 ELSE CHOOSE i \in hits : \A j \in hits : i >= j

FirstHit(clientX, clientY) ==
    LET hits == {i \in 1..4 : CornerHit(i, clientX, clientY)}
    IN  IF hits = {} THEN 0 ELSE CHOOSE i \in hits : \A j \in hits : i <= j

\* Variant: the lower bound is missing.
ClampUpperOnly(v, bound) == Min(bound, v)

\* Math.max(0, Math.min(bound, v))
Clamp(v, bound) == Max(0, Min(bound, v))

\* handleWindowMouseMove, the corner branch: newPoints[index] + (dx, dy) before clamping
DragTarget(clientX, clientY) ==
    LET dx == ToNative(clientX - dragStartPosRef.x)
        dy == ToNative(clientY - dragStartPosRef.y)
        old == initialPointsRef[dragInfo]
    IN  Pt(old.x + dx, old.y + dy)

\* Variant: an edge drag, which moves the corner and the next one by the displacement.
DraggedPointsEdge(clientX, clientY) ==
    LET newPoints == initialPointsRef
        target == DragTarget(clientX, clientY)
        next == (dragInfo % 4) + 1
        dx == target.x - newPoints[dragInfo].x
        dy == target.y - newPoints[dragInfo].y
    IN  [newPoints EXCEPT
            ![dragInfo] = Pt(Clamp(target.x, NaturalWidth), Clamp(target.y, NaturalHeight)),
            ![next] = Pt(Clamp(@.x + dx, NaturalWidth), Clamp(@.y + dy, NaturalHeight))]

\* Variant: the displacement is added to the current points, not to the snapshot.
DraggedPointsIncremental(clientX, clientY) ==
    LET dx == ToNative(clientX - dragStartPosRef.x)
        dy == ToNative(clientY - dragStartPosRef.y)
    IN  [points EXCEPT ![dragInfo] =
            Pt(Clamp(@.x + dx, NaturalWidth), Clamp(@.y + dy, NaturalHeight))]

\* handleWindowMouseMove, the corner branch: the new value of points
DraggedPoints(clientX, clientY) ==
    LET newPoints == initialPointsRef
        target == DragTarget(clientX, clientY)
    IN  [newPoints EXCEPT ![dragInfo] =
            Pt(Clamp(target.x, NaturalWidth), Clamp(target.y, NaturalHeight))]

\* An assignment to scrollLeft / scrollTop is kept within the scrollable range.
ScrollTo(left, top) == [left |-> Clamp(left, MaxScroll), top |-> Clamp(top, MaxScroll)]

framePointer == <<isOpen, itemUrl, history, currentIndex, isProcessing, activeTool,
                  brightness, contrast, rotation, zoom, isSpacePressed, spaceHeld, imageLoaded,
                  detecting, detectLog, pendingSaves, saveLog, onUpdateArg>>

\* Variant: the handler does not test isProcessing.
handleMouseDownWhileProcessing(clientX, clientY) ==
    LET ignored == points = NoPoints
        pan == ~ignored /\ (isSpacePressed \/ activeTool = "none")
        hit == IF ~ignored /\ ~pan /\ activeTool = "crop"
               THEN FirstHit(clientX, clientY) ELSE 0
    IN  /\ isOpen
        /\ sessions < MaxSessions
        /\ IF ignored
           THEN UNCHANGED <<isDragging, dragInfo, isPanning, panStartRef,
                            scrollStartRef, dragStartPosRef, initialPointsRef>>
           ELSE IF pan
           THEN /\ isPanning' = TRUE
                /\ panStartRef' = Pt(clientX, clientY)
                /\ scrollStartRef' = scroll
                /\ UNCHANGED <<isDragging, dragInfo, dragStartPosRef, initialPointsRef>>
           ELSE IF hit # 0
           THEN /\ isDragging' = TRUE
                /\ dragInfo' = hit
                /\ dragStartPosRef' = Pt(clientX, clientY)
                /\ initialPointsRef' = points
                /\ UNCHANGED <<isPanning, panStartRef, scrollStartRef>>
           ELSE UNCHANGED <<isDragging, dragInfo, isPanning, panStartRef,
                            scrollStartRef, dragStartPosRef, initialPointsRef>>
        /\ sessions' = IF pan \/ hit # 0 THEN sessions + 1 ELSE sessions
        /\ moved' = IF pan \/ hit # 0 THEN << >> ELSE moved
        /\ lastEvent' = IF ignored THEN "ignored" ELSE "down"
        /\ UNCHANGED <<points, scroll>>
        /\ UNCHANGED framePointer
        /\ UNCHANGED <<appVars, cvVars>>

handleMouseDown(clientX, clientY) ==
    LET ignored == isProcessing \/ points = NoPoints
        pan == ~ignored /\ (isSpacePressed \/ activeTool = "none")
        hit == IF ~ignored /\ ~pan /\ activeTool = "crop"
               THEN FirstHit(clientX, clientY) ELSE 0
    IN  /\ isOpen
        /\ sessions < MaxSessions
        /\ IF ignored
           THEN UNCHANGED <<isDragging, dragInfo, isPanning, panStartRef,
                            scrollStartRef, dragStartPosRef, initialPointsRef>>
           ELSE IF pan
           THEN /\ isPanning' = TRUE
                /\ panStartRef' = Pt(clientX, clientY)
                /\ scrollStartRef' = scroll
                /\ UNCHANGED <<isDragging, dragInfo, dragStartPosRef, initialPointsRef>>
           ELSE IF hit # 0
           THEN /\ isDragging' = TRUE
                /\ dragInfo' = hit
                /\ dragStartPosRef' = Pt(clientX, clientY)
                /\ initialPointsRef' = points
                /\ UNCHANGED <<isPanning, panStartRef, scrollStartRef>>
           ELSE UNCHANGED <<isDragging, dragInfo, isPanning, panStartRef,
                            scrollStartRef, dragStartPosRef, initialPointsRef>>
        /\ sessions' = IF pan \/ hit # 0 THEN sessions + 1 ELSE sessions
        /\ moved' = IF pan \/ hit # 0 THEN << >> ELSE moved
        /\ lastEvent' = IF ignored THEN "ignored" ELSE "down"
        /\ UNCHANGED <<points, scroll>>
        /\ UNCHANGED framePointer
        /\ UNCHANGED <<appVars, cvVars>>

\* Variant: the corner branch is tested before the panning branch.
handleWindowMouseMoveDragFirst(clientX, clientY) ==
    /\ isOpen
    /\ IF ~(isDragging \/ isPanning)
       THEN UNCHANGED <<points, scroll, moved>>
       ELSE IF isDragging /\ points # NoPoints /\ initialPointsRef # NoPoints /\ dragInfo # 0
       THEN /\ points' = DraggedPoints(clientX, clientY)
            /\ moved' = << DragTarget(clientX, clientY) >>
            /\ UNCHANGED scroll
       ELSE IF isPanning
       THEN /\ scroll' = ScrollTo(scrollStartRef.left - (clientX - panStartRef.x),
                                  scrollStartRef.top - (clientY - panStartRef.y))
            /\ UNCHANGED <<points, moved>>
       ELSE UNCHANGED <<points, scroll, moved>>
    /\ lastEvent' = "move"
    /\ UNCHANGED <<isDragging, dragInfo, isPanning, panStartRef, scrollStartRef,
                   dragStartPosRef, initialPointsRef, sessions>>
    /\ UNCHANGED framePointer
    /\ UNCHANGED <<appVars, cvVars>>

\* A mousemove on the window.  The listener is attached by the effect only
\* while isDragging || isPanning.
handleWindowMouseMove(clientX, clientY) ==
    /\ isOpen
    /\ IF ~(isDragging \/ isPanning)
       THEN UNCHANGED <<points, scroll, moved>>
       ELSE IF isPanning
       THEN /\ scroll' = ScrollTo(scrollStartRef.left - (clientX - panStartRef.x),
                                  scrollStartRef.top - (clientY - panStartRef.y))
            /\ UNCHANGED <<points, moved>>
       ELSE IF ~isDragging \/ points = NoPoints \/ initialPointsRef = NoPoints
                \/ dragInfo = 0
       THEN UNCHANGED <<points, scroll, moved>>
       ELSE /\ points' = DraggedPoints(clientX, clientY)
            /\ moved' = << DragTarget(clientX, clientY) >>
            /\ UNCHANGED scroll
    /\ lastEvent' = "move"
    /\ UNCHANGED <<isDragging, dragInfo, isPanning, panStartRef, scrollStartRef,
                   dragStartPosRef, initialPointsRef, sessions>>
    /\ UNCHANGED framePointer
    /\ UNCHANGED <<appVars, cvVars>>

\* Variant: the listener only ends a corner drag (setIsPanning(false) is missing).
handleWindowMouseUpDragOnly ==
    /\ isOpen
    /\ isDragging' = FALSE
    /\ lastEvent' = "up"
    /\ UNCHANGED <<points, dragInfo, isPanning, panStartRef, scrollStartRef,
                   dragStartPosRef, initialPointsRef, scroll, sessions, moved>>
    /\ UNCHANGED framePointer
    /\ UNCHANGED <<appVars, cvVars>>

\* window 'mouseup': () => { setIsDragging(false); setIsPanning(false); }
handleWindowMouseUp ==
    /\ isOpen
    /\ isDragging' = FALSE
    /\ isPanning' = FALSE
    /\ lastEvent' = "up"
    /\ UNCHANGED <<points, dragInfo, panStartRef, scrollStartRef, dragStartPosRef,
                   initialPointsRef, scroll, sessions, moved>>
    /\ UNCHANGED framePointer
    /\ UNCHANGED <<appVars, cvVars>>

\* The Space key goes down or up.  The component registers no keydown or
\* keyup listener and never calls setIsSpacePressed: nothing of it changes.
SpaceKey(down) ==
    /\ isOpen
    /\ spaceHeld' = down
    /\ UNCHANGED <<isOpen, itemUrl, history, currentIndex, isProcessing, activeTool, points,
                   isDragging, dragInfo, brightness, contrast, rotation, zoom, isPanning,
                   isSpacePressed, panStartRef, scrollStartRef, dragStartPosRef,
                   initialPointsRef, scroll, imageLoaded, sessions, lastEvent, moved,
                   detecting, detectLog, pendingSaves, saveLog, onUpdateArg>>
    /\ UNCHANGED <<appVars, cvVars>>

\* Where the pointer goes down: on a corner handle, or away from all of them.
PointerDowns ==
    IF points = NoPoints THEN {MissPoint}
    ELSE {Pt(ToScreen(points[i].x) + imgRectLeft, ToScreen(points[i].y) + imgRectTop)
            : i \in 1..4} \cup {MissPoint}

\* Where the pointer moves to: relative to where the session started.
PointerMoves ==
    LET start == IF isPanning THEN panStartRef ELSE dragStartPosRef
    IN  {Pt(start.x + d.x, start.y + d.y) : d \in MoveVectors}

\* The pointer going down on the first corner handle and 10 and 30 screen
\* pixels to the left of it; its moves while the zoom varies, one of them back
\* to where the session started.
ViewDowns ==
    IF points = NoPoints THEN {MissPoint}
    ELSE {Pt(ToScreen(points[1].x) + imgRectLeft - d, ToScreen(points[1].y) + imgRectTop)
            : d \in {0, 10, 30}}
ViewMoves ==
    LET start == IF isPanning THEN panStartRef ELSE dragStartPosRef
    IN  {Pt(start.x + d.x, start.y + d.y) : d \in {Pt(-100, -100), Pt(8, -4), Pt(0, 0)}}

(***************************************************************************)
(* EditorModal: Save.                                                      *)
(***************************************************************************)
CropCall(url, pts) ==
    [fn |-> "applyPerspectiveCrop", url |-> url, points |-> pts,
     brightness |-> 0, contrast |-> 0, rotation |-> 0]
AdjustCall(url, b, c, r) ==
    [fn |-> "applyImageAdjustments", url |-> url, points |-> NoPoints,
     brightness |-> b, contrast |-> c, rotation |-> r]

\* Variant: the enhancement test comes first.
handleSaveCallsAdjustFirst(tool, pts, b, c, r, url) ==
    IF b # 100 \/ c # 100 \/ r # 0
    THEN << AdjustCall(url, b, c, r) >>
    ELSE IF tool = "crop" /\ pts # NoPoints
    THEN << CropCall(url, pts) >>
    ELSE << >>

\* Variant: enhancement only when brightness and contrast both differ (&& for ||).
handleSaveCallsBothDiffer(tool, pts, b, c, r, url) ==
    IF tool = "crop" /\ pts # NoPoints
    THEN << CropCall(url, pts) >>
    ELSE IF (b # 100 /\ c # 100) \/ r # 0
    THEN << AdjustCall(url, b, c, r) >>
    ELSE << >>

\* Variant: the else branch enhances without testing the parameters.
handleSaveCallsAlwaysAdjust(tool, pts, b, c, r, url) ==
    IF tool = "crop" /\ pts # NoPoints
    THEN << CropCall(url, pts) >>
    ELSE << AdjustCall(url, b, c, r) >>

\* handleSave: the transform calls it makes, in order
handleSaveCalls(tool, pts, b, c, r, url) ==
    IF tool = "crop" /\ pts # NoPoints
    THEN << CropCall(url, pts) >>
    ELSE IF b # 100 \/ c # 100 \/ r # 0
    THEN << AdjustCall(url, b, c, r) >>
    ELSE << >>

\* The url a transform resolves to.
ResultUrl(call) ==
    Append(call.url, IF call.fn = "applyPerspectiveCrop" THEN "crop" ELSE "adjust")

\* Math.sin and Math.cos of a multiple of 90 degrees given in radians, as
\* <<whole, tiny>>: the value is whole + tiny * e for an e far below 1 / (w + h)
\* (Math.sin(Math.PI) is 1.2e-16 and Math.cos(Math.PI / 2) is 6.1e-17, not 0).
\* Variant: the sine keeps its sign.
SinOfSigned(deg) ==
    IF deg \in {90, -270} THEN <<1, 0>>
    ELSE IF deg \in {-90, 270} THEN <<-1, 0>>
    ELSE IF deg = 0 THEN <<0, 0>>
    ELSE <<0, 1>>

\* Math.abs(Math.sin(rads))
AbsSinOf(deg) ==
    IF deg \in {90, -90, 270, -270} THEN <<1, 0>>
    ELSE IF deg = 0 THEN <<0, 0>>
    ELSE <<0, 1>>

\* Math.abs(Math.cos(rads))
AbsCosOf(deg) ==
    IF deg \in {0, 180, -180} THEN <<1, 0>>
    ELSE <<0, 1>>

\* canvas.width = newWidth; canvas.height = newHeight, for an image of w x h:
\* the canvas keeps the whole pixels of img.width * cos + img.height * sin.
\* rotation % 360 has the sign of the dividend.
AdjustCanvas(w, h, r) ==
    LET deg == IF r >= 0 THEN r % 360 ELSE 0 - ((0 - r) % 360)
        sin == AbsSinOf(deg)
        cos == AbsCosOf(deg)
    IN  <<w * cos[1] + h * sin[1], w * sin[1] + h * cos[1]>>

\* The canvas a transform of the edited image draws (not followed for a crop).
CanvasOf(call) ==
    IF call.fn = "applyImageAdjustments"
    THEN AdjustCanvas(NaturalWidth, NaturalHeight, call.rotation)
    ELSE << >>

frameSave == <<itemUrl, history, currentIndex, activeTool, points, isDragging, dragInfo,
               brightness, contrast, rotation, zoom, isPanning, isSpacePressed, spaceHeld,
               panStartRef, scrollStartRef, dragStartPosRef, initialPointsRef, scroll,
               imageLoaded, sessions, lastEvent, moved>>

\* handleSave up to its await; with no transform to await it runs to its end
\* (onUpdate, onClose: the modal unmounts).
handleSave ==
    /\ isOpen /\ ~overlayBlocks
    /\ Len(currentImage) < MaxUrlLen
    /\ LET cs == handleSaveCalls(activeTool, points, brightness, contrast, rotation,
                                 currentImage)
           log == [tool |-> activeTool, points |-> points, brightness |-> brightness,
                   contrast |-> contrast, rotation |-> rotation,
                   image |-> currentImage, calls |-> cs,
                   handedBack |-> IF cs = << >> THEN currentImage ELSE NoUrl,
                   canvas |-> << >>, failed |-> FALSE]
       IN  /\ saveLog' = <<log>>
           /\ IF cs = << >>
              THEN /\ onUpdateArg' = currentImage
                   /\ isOpen' = FALSE
                   /\ EditorDefaults
                   /\ pendingSaves' = Stale(pendingSaves)
                   /\ UNCHANGED itemUrl
              ELSE /\ Cardinality(pendingSaves) < MaxPendingSaves
                   /\ isProcessing' = TRUE
                   /\ pendingSaves' = pendingSaves \cup {[call |-> cs[1], stale |-> FALSE]}
                   /\ UNCHANGED <<isOpen, onUpdateArg, detecting, detectLog>>
                   /\ UNCHANGED frameSave
    /\ UNCHANGED <<appVars, cvVars>>

\* An awaited transform resolves: onUpdate({...item, url: finalUrl}); onClose().
SaveResolves(p) ==
    /\ p \in pendingSaves
    /\ onUpdateArg' = ResultUrl(p.call)
    /\ isOpen' = FALSE
    /\ EditorDefaults
    /\ pendingSaves' = Stale(pendingSaves \ {p})
    /\ saveLog' = IF ~p.stale /\ saveLog # << >> /\ saveLog[1].calls = <<p.call>>
                  THEN <<[saveLog[1] EXCEPT !.canvas = CanvasOf(p.call)]>>
                  ELSE saveLog
    /\ UNCHANGED itemUrl
    /\ UNCHANGED <<appVars, cvVars>>

\* applyImageAdjustments: canvas.getContext('2d') gives null and
\* `if (!ctx) return;` leaves the promise without resolve or reject (as does an
\* exception thrown inside img.onload, which has no try/catch): the await in
\* handleSave never returns, neither catch nor finally runs.
AdjustNeverSettles(p) ==
    /\ p \in pendingSaves
    /\ p.call.fn = "applyImageAdjustments"
    /\ pendingSaves' = pendingSaves \ {p}
    /\ UNCHANGED <<isOpen, isProcessing, saveLog, onUpdateArg, detecting, detectLog>>
    /\ UNCHANGED frameSave
    /\ UNCHANGED <<appVars, cvVars>>

\* Variant: no finally block (isProcessing stays true after the alert).
SaveRejectsNoFinally(p) ==
    /\ p \in pendingSaves
    /\ pendingSaves' = pendingSaves \ {p}
    /\ saveLog' = IF ~p.stale /\ saveLog # << >> /\ saveLog[1].calls = <<p.call>>
                  THEN <<[saveLog[1] EXCEPT !.failed = TRUE]>>
                  ELSE saveLog
    /\ UNCHANGED <<isOpen, isProcessing, onUpdateArg, detecting, detectLog>>
    /\ UNCHANGED frameSave
    /\ UNCHANGED <<appVars, cvVars>>

\* An awaited transform rejects: alert("Erro ao salvar."), finally
\* setIsProcessing(false).
SaveRejects(p) ==
    /\ p \in pendingSaves
    /\ pendingSaves' = pendingSaves \ {p}
    /\ IF p.stale
       THEN UNCHANGED <<isProcessing, saveLog>>
       ELSE /\ isProcessing' = FALSE
            /\ saveLog' = IF saveLog # << >> /\ saveLog[1].calls = <<p.call>>
                          THEN <<[saveLog[1] EXCEPT !.failed = TRUE]>>
                          ELSE saveLog
    /\ UNCHANGED <<isOpen, onUpdateArg, detecting, detectLog>>
    /\ UNCHANGED frameSave
    /\ UNCHANGED <<appVars, cvVars>>

(***************************************************************************)
(* App: the working set.                                                   *)
(***************************************************************************)
NewDoc(id) == [id |-> id, selected |-> FALSE, items |-> << >>]

\* handleAddItem: the ImageItem built for one file
NewItem(id, type) ==
    [id |-> id, url |-> <<ToString(id)>>, originalUrl |-> <<ToString(id)>>,
     originalFile |-> "File", type |-> type, processing |-> "undefined",
     backupUrl |-> NoUrl]

\* The items of the working set.
AllItems(docs) == UNION {{docs[d].items[k] : k \in DOMAIN docs[d].items} : d \in DOMAIN docs}

\* prev.map(doc => ... doc.items.map(i => ...)): the function f applied to every
\* item of every document whose position is in inDoc
MapItems(docs, inDoc, f) ==
    [d \in DOMAIN docs |->
        IF d \in inDoc
        THEN [docs[d] EXCEPT !.items = [k \in DOMAIN docs[d].items |-> f[docs[d].items[k]]]]
        ELSE docs[d]]

\* JSON.parse(JSON.stringify(documents)): a File serialises to {} and a key
\* whose value is undefined is dropped (it reads back as undefined).
JsonCopy(docs) ==
    LET copy == [i \in AllItems(docs) |-> [i EXCEPT !.originalFile = "{}"]]
    IN  MapItems(docs, DOMAIN docs, copy)

\* The items of the working set as (document id, item id, url).
UrlsOf(docs) ==
    UNION {{<<docs[d].id, docs[d].items[k].id, docs[d].items[k].url>> :
                k \in DOMAIN docs[d].items} : d \in DOMAIN docs}

ItemCount(docs) == Cardinality(UrlsOf(docs))

frameBatch == <<tasks, calls, successCount, toast, preBatch, batchLog, batches, moves,
               closures>>

\* setDocuments([...documents, {id: Date.now().toString(), ..., items: [], selected: false}])
handleAddDocument ==
    /\ Len(documents) < MaxDocs
    /\ nextDocId <= MaxDocIds
    /\ documents' = Append(documents, NewDoc(nextDocId))
    /\ nextDocId' = nextDocId + 1
    /\ lastOp' = "other"
    /\ UNCHANGED <<batchHistory, appIsProcessing, nextItemId>>
    /\ UNCHANGED frameBatch
    /\ UNCHANGED <<editorVars, cvVars>>

\* Variant: no test of documents.length.
handleDeleteDocumentUnguarded(id) ==
    /\ documents' = SelectSeq(documents, LAMBDA d : d.id # id)
    /\ lastOp' = IF documents' # documents THEN "delete" ELSE "other"
    /\ UNCHANGED <<batchHistory, appIsProcessing, nextDocId, nextItemId>>
    /\ UNCHANGED frameBatch
    /\ UNCHANGED <<editorVars, cvVars>>

\* if (documents.length <= 1) return; setDocuments(documents.filter(d => d.id !== id));
handleDeleteDocument(id) ==
    /\ documents' = IF Len(documents) <= 1 THEN documents
                    ELSE SelectSeq(documents, LAMBDA d : d.id # id)
    /\ lastOp' = IF Len(documents) <= 1 THEN "deleteNoop"
                 ELSE IF documents' # documents THEN "delete" ELSE "other"
    /\ UNCHANGED <<batchHistory, appIsProcessing, nextDocId, nextItemId>>
    /\ UNCHANGED frameBatch
    /\ UNCHANGED <<editorVars, cvVars>>

handleToggleColumnSelection(id, selected) ==
    /\ documents' = [d \in DOMAIN documents |->
                        IF documents[d].id = id
                        THEN [documents[d] EXCEPT !.selected = selected]
                        ELSE documents[d]]
    /\ lastOp' = "other"
    /\ UNCHANGED <<batchHistory, appIsProcessing, nextDocId, nextItemId>>
    /\ UNCHANGED frameBatch
    /\ UNCHANGED <<editorVars, cvVars>>

handleClearAll ==
    /\ nextDocId <= MaxDocIds
    /\ documents' = << NewDoc(nextDocId) >>
    /\ nextDocId' = nextDocId + 1
    /\ batchHistory' = NoSnapshot
    /\ lastOp' = "other"
    /\ UNCHANGED <<appIsProcessing, nextItemId>>
    /\ UNCHANGED frameBatch
    /\ UNCHANGED <<editorVars, cvVars>>

\* handleAddItem with one file of the given type
handleAddItem(docId, type) ==
    /\ nextItemId <= MaxItems
    /\ documents' = [d \in DOMAIN documents |->
                        IF documents[d].id = docId
                        THEN [documents[d] EXCEPT
                                !.items = Append(@, NewItem(nextItemId, type))]
                        ELSE documents[d]]
    /\ nextItemId' = nextItemId + 1
    /\ lastOp' = "other"
    /\ UNCHANGED <<batchHistory, appIsProcessing, nextDocId>>
    /\ UNCHANGED frameBatch
    /\ UNCHANGED <<editorVars, cvVars>>

\* if (item.id !== itemId || !item.backupUrl) return item;
\* return { ...item, url: item.backupUrl, backupUrl: undefined };
handleRestoreItem(docId, itemId) ==
    /\ LET inDoc == {d \in DOMAIN documents : documents[d].id = docId}
           restore == [i \in AllItems(documents) |->
                          IF i.id # itemId \/ i.backupUrl = NoUrl THEN i
                          ELSE [i EXCEPT !.url = i.backupUrl, !.backupUrl = NoUrl]]
       IN  documents' = MapItems(documents, inDoc, restore)
    /\ lastOp' = "other"
    /\ UNCHANGED <<batchHistory, appIsProcessing, nextDocId, nextItemId>>
    /\ UNCHANGED frameBatch
    /\ UNCHANGED <<editorVars, cvVars>>

\* Variant: Reset goes back to the backup.
ResetItemToBackup(item) == [item EXCEPT !.url = item.backupUrl, !.backupUrl = NoUrl]

\* { ...item, url: item.originalUrl, backupUrl: undefined }
ResetItem(item) == [item EXCEPT !.url = item.originalUrl, !.backupUrl = NoUrl]

handleResetToOriginal(docId, itemId) ==
    /\ LET inDoc == {d \in DOMAIN documents : documents[d].id = docId}
           reset == [i \in AllItems(documents) |->
                        IF i.id # itemId THEN i ELSE ResetItem(i)]
       IN  documents' = MapItems(documents, inDoc, reset)
    /\ toast' = "restored"
    /\ lastOp' = IF documents' # documents THEN "reset" ELSE "other"
    /\ UNCHANGED <<batchHistory, appIsProcessing, nextDocId, nextItemId>>
    /\ UNCHANGED <<tasks, calls, successCount, preBatch, batchLog, batches, moves, closures>>
    /\ UNCHANGED <<editorVars, cvVars>>

\* prev.map(d => d.id === docId ? {...d, items: d.items.map(i => i.id === id ? item : i)} : d)
PutItem(docs, docId, item) ==
    LET inDoc == {d \in DOMAIN docs : docs[d].id = docId}
        put == [i \in AllItems(docs) |-> IF i.id = item.id THEN item ELSE i]
    IN  MapItems(docs, inDoc, put)

\* A handler takes hold of the item as rendered: handleEditItem keeps it in
\* editingItem (one editor at a time), handleRotateItem in its const item
\* (images only) while it awaits img.onload.
HoldItem(kind, docId, itemId) ==
    /\ Cardinality(closures) < MaxClosures
    /\ kind = "edit" => \A c \in closures : c.kind # "edit"
    /\ \E i \in AllItems(documents) :
          /\ i.id = itemId
          /\ \E d \in DOMAIN documents :
                 /\ documents[d].id = docId
                 /\ \E k \in DOMAIN documents[d].items : documents[d].items[k] = i
          /\ kind = "rotate" => i.type = "image"
          /\ Len(i.url) < MaxUrlLen
          /\ closures' = closures \cup {[kind |-> kind, docId |-> docId, item |-> i]}
    /\ lastOp' = "other"
    /\ UNCHANGED <<documents, batchHistory, appIsProcessing, nextDocId, nextItemId>>
    /\ UNCHANGED <<tasks, calls, successCount, toast, preBatch, batchLog, batches, moves>>
    /\ UNCHANGED <<editorVars, cvVars>>

handleEditItem(docId, itemId) == HoldItem("edit", docId, itemId)

\* The editor's Save: onUpdate({ ...item, url: finalUrl }) with the item the
\* editor was opened on, then onClose (setEditingItem(null)).
handleUpdateItem(c, finalUrl) ==
    /\ c \in closures /\ c.kind = "edit"
    /\ documents' = PutItem(documents, c.docId, [c.item EXCEPT !.url = finalUrl])
    /\ closures' = closures \ {c}
    /\ lastOp' = "other"
    /\ UNCHANGED <<batchHistory, appIsProcessing, nextDocId, nextItemId>>
    /\ UNCHANGED <<tasks, calls, successCount, toast, preBatch, batchLog, batches, moves>>
    /\ UNCHANGED <<editorVars, cvVars>>

\* handleRotateItem up to its await, and from img.onload to its end:
\* i.id === itemId ? { ...item, url: newUrl } : i
handleRotateItem(docId, itemId) == HoldItem("rotate", docId, itemId)

handleRotateItemLoaded(c) ==
    /\ c \in closures /\ c.kind = "rotate"
    /\ documents' = PutItem(documents, c.docId,
                            [c.item EXCEPT !.url = Append(c.item.url, "rotate")])
    /\ closures' = closures \ {c}
    /\ lastOp' = "other"
    /\ UNCHANGED <<batchHistory, appIsProcessing, nextDocId, nextItemId>>
    /\ UNCHANGED <<tasks, calls, successCount, toast, preBatch, batchLog, batches, moves>>
    /\ UNCHANGED <<editorVars, cvVars>>

\* sourceItems.splice(itemIndex, 1)
RemoveAt(items, k) == [j \in 1..(Len(items) - 1) |-> IF j < k THEN items[j] ELSE items[j + 1]]

\* targetItems.push(movedItem) when targetIndex is null (here -1) or beyond the
\* end, else targetItems.splice(targetIndex, 0, movedItem)
InsertAt(items, targetIndex, item) ==
    IF targetIndex = -1 \/ targetIndex >= Len(items)
    THEN Append(items, item)
    ELSE [j \in 1..(Len(items) + 1) |->
            IF j <= targetIndex THEN items[j]
            ELSE IF j = targetIndex + 1 THEN item ELSE items[j - 1]]

\* Variant: the target list is taken before the item is removed from it.
MovedDocsBeforeRemoval(docs, sourceDocId, itemId, targetDocId, targetIndex) ==
    LET src == {d \in DOMAIN docs : docs[d].id = sourceDocId}
        tgt == {d \in DOMAIN docs : docs[d].id = targetDocId}
    IN  IF src = {} \/ tgt = {} THEN docs
        ELSE LET s == CHOOSE d \in src : \A e \in src : d <= e
                 t == CHOOSE d \in tgt : \A e \in tgt : d <= e
                 at == {k \in DOMAIN docs[s].items : docs[s].items[k].id = itemId}
             IN  IF at = {} THEN docs
                 ELSE LET k == CHOOSE k \in at : \A j \in at : k <= j
                          movedItem == docs[s].items[k]
                          sourceItems == RemoveAt(docs[s].items, k)
                          targetItems == InsertAt(docs[t].items,
                                                  targetIndex, movedItem)
                      IN  [d \in DOMAIN docs |->
                              IF d = t THEN [docs[d] EXCEPT !.items = targetItems]
                              ELSE IF d = s THEN [docs[d] EXCEPT !.items = sourceItems]
                              ELSE docs[d]]

MovedDocs(docs, sourceDocId, itemId, targetDocId, targetIndex) ==
    LET src == {d \in DOMAIN docs : docs[d].id = sourceDocId}
        tgt == {d \in DOMAIN docs : docs[d].id = targetDocId}
    IN  IF src = {} \/ tgt = {} THEN docs
        ELSE LET s == CHOOSE d \in src : \A e \in src : d <= e
                 t == CHOOSE d \in tgt : \A e \in tgt : d <= e
                 at == {k \in DOMAIN docs[s].items : docs[s].items[k].id = itemId}
             IN  IF at = {} THEN docs
                 ELSE LET k == CHOOSE k \in at : \A j \in at : k <= j
                          movedItem == docs[s].items[k]
                          sourceItems == RemoveAt(docs[s].items, k)
                          targetItems == InsertAt(IF s = t THEN sourceItems
                                                  ELSE docs[t].items,
                                                  targetIndex, movedItem)
                      IN  [d \in DOMAIN docs |->
                              IF d = t THEN [docs[d] EXCEPT !.items = targetItems]
                              ELSE IF d = s THEN [docs[d] EXCEPT !.items = sourceItems]
                              ELSE docs[d]]

handleMoveItem(sourceDocId, itemId, targetDocId, targetIndex) ==
    /\ moves < MaxMoves
    /\ moves' = moves + 1
    /\ documents' = MovedDocs(documents, sourceDocId, itemId, targetDocId, targetIndex)
    /\ lastOp' = "other"
    /\ UNCHANGED <<batchHistory, appIsProcessing, nextDocId, nextItemId>>
    /\ UNCHANGED <<tasks, calls, successCount, toast, preBatch, batchLog, batches, closures>>
    /\ UNCHANGED <<editorVars, cvVars>>

(***************************************************************************)
(* cvService: autoCropImage.                                               *)
(***************************************************************************)
\* applyPerspectiveCrop resolves to a new data URL
CroppedUrl(imageUrl) == Append(imageUrl, "crop")

\* Variant: with no corners detected the default quadrilateral is rectified.
autoCropImageDefaultQuad(imageUrl, corners) == CroppedUrl(imageUrl)

\* const corners = await detectDocumentCorners(imageUrl);
\* if (!corners) return imageUrl; return applyPerspectiveCrop(imageUrl, corners);
autoCropImage(imageUrl, corners) ==
    IF corners = NoPoints THEN imageUrl ELSE CroppedUrl(imageUrl)

(***************************************************************************)
(* App: batch autocrop and undo.                                           *)
(***************************************************************************)
\* The batch button of the TopBar, which is handed isProcessing.
batchButtonEnabled == ~appIsProcessing

\* Variant: a task is pushed for every item, whatever its type.
ItemTasksAll(doc) ==
    [k \in 1..Len(doc.items) |->
        [docId |-> doc.id, itemId |-> doc.items[k].id, url |-> doc.items[k].url]]

\* doc.items.forEach(item => { if (item.type === 'image') tasks.push({...}) })
ItemTasks(doc) ==
    LET isImage(i) == i.type = "image"
        imgs == SelectSeq(doc.items, isImage)
    IN  [k \in 1..Len(imgs) |->
            [docId |-> doc.id, itemId |-> imgs[k].id, url |-> imgs[k].url]]

\* docsToProcess.forEach(doc => ...), docsToProcess = documents.filter(doc => doc.selected)
RECURSIVE BuildTasks(_)
BuildTasks(docs) ==
    IF docs = << >> THEN << >>
    ELSE (IF Head(docs).selected THEN ItemTasks(Head(docs)) ELSE << >>)
            \o BuildTasks(Tail(docs))

\* i.type === 'image' ? { ...i, processing: true, backupUrl: i.url } : i, in the selected docs
MarkProcessing(docs) ==
    LET inDoc == {d \in DOMAIN docs : docs[d].selected}
        mark == [i \in AllItems(docs) |->
                    IF i.type = "image"
                    THEN [i EXCEPT !.processing = "true", !.backupUrl = i.url]
                    ELSE i]
    IN  MapItems(docs, inDoc, mark)

\* Variant: the calls are started together (tasks.map(...) under Promise.all).
NextCallsTogether(k, n) == IF k = 0 THEN 1..n ELSE {}

\* for (const task of tasks) { ... await autoCropImage(task.url) ... }: the calls
\* started once task k of n has settled (k = 0: on entering the loop)
NextCalls(k, n) == IF k < n THEN {k + 1} ELSE {}

\* the try branch: { ...i, url: newUrl, processing: false } for the task's item
TaskDone(docs, task, newUrl) ==
    LET inDoc == {d \in DOMAIN docs : docs[d].id = task.docId}
        done == [i \in AllItems(docs) |->
                    IF i.id = task.itemId
                    THEN [i EXCEPT !.url = newUrl, !.processing = "false"]
                    ELSE i]
    IN  MapItems(docs, inDoc, done)

\* the catch branch: { ...i, processing: false } for the task's item
TaskFailed(docs, task) ==
    LET inDoc == {d \in DOMAIN docs : docs[d].id = task.docId}
        failed == [i \in AllItems(docs) |->
                      IF i.id = task.itemId THEN [i EXCEPT !.processing = "false"] ELSE i]
    IN  MapItems(docs, inDoc, failed)

\* Variant: the inner try/catch is missing, a rejection leaves the for loop.
CallsAfterCatchStops(k, n) == {}

\* the catch block ends and the for loop goes on: the calls started after task k failed
CallsAfterCatch(k, n) == NextCalls(k, n)

\* the items of docs that a task addresses (doc.id === task.docId, i.id === task.itemId),
\* as (url, processing)
TaskItems(docs, task) ==
    UNION {{<<docs[d].items[j].url, docs[d].items[j].processing>> :
                j \in {j \in DOMAIN docs[d].items : docs[d].items[j].id = task.itemId}} :
            d \in {d \in DOMAIN docs : docs[d].id = task.docId}}

\* setToast({... successCount > 0 ? "Recorte concluído!" : "Nenhum documento identificado."})
BatchToast(n) == IF n > 0 THEN "success" ELSE "error"

handleBatchAutoCrop ==
    /\ batchButtonEnabled
    /\ batches < MaxBatches
    /\ IF \A d \in DOMAIN documents : ~documents[d].selected
       THEN /\ lastOp' = "batchNoop"
            /\ UNCHANGED <<documents, batchHistory, appIsProcessing>>
            /\ UNCHANGED frameBatch
       ELSE LET ts == BuildTasks(documents)
            IN  /\ batches' = batches + 1
                /\ batchHistory' = JsonCopy(documents)
                /\ preBatch' = documents
                /\ documents' = MarkProcessing(documents)
                /\ successCount' = 0
                /\ batchLog' = << >>
                /\ calls' = NextCalls(0, Len(ts))
                /\ IF calls' = {}
                   THEN /\ toast' = BatchToast(0)
                        /\ appIsProcessing' = FALSE
                        /\ tasks' = << >>
                   ELSE /\ appIsProcessing' = TRUE
                        /\ tasks' = ts
                        /\ UNCHANGED toast
                /\ lastOp' = "batchStart"
                /\ UNCHANGED <<moves, closures>>
    /\ UNCHANGED <<nextDocId, nextItemId>>
    /\ UNCHANGED <<editorVars, cvVars>>

\* what follows the settling of a call: the next call, or the end of the batch
BatchContinues(count) ==
    IF calls' = {}
    THEN /\ toast' = BatchToast(count)
         /\ appIsProcessing' = FALSE
         /\ tasks' = << >>
         /\ successCount' = 0
    ELSE /\ successCount' = count
         /\ UNCHANGED <<toast, appIsProcessing, tasks>>

\* the awaited autoCropImage(task.url) of task k resolves
autoCropResolves(k, corners) ==
    /\ k \in calls
    /\ LET task == tasks[k]
           newUrl == autoCropImage(task.url, corners)
           count == IF newUrl # task.url THEN successCount + 1 ELSE successCount
       IN  /\ documents' = TaskDone(documents, task, newUrl)
           /\ calls' = (calls \ {k}) \cup NextCalls(k, Len(tasks))
           /\ batchLog' = Append(batchLog,
                            [task |-> k, docId |-> task.docId, itemId |-> task.itemId,
                             corners |-> corners, outcome |-> "resolved",
                             before |-> TaskItems(documents, task),
                             after |-> TaskItems(documents', task)])
           /\ BatchContinues(count)
    /\ lastOp' = "other"
    /\ UNCHANGED <<batchHistory, nextDocId, nextItemId, preBatch, batches, moves, closures>>
    /\ UNCHANGED <<editorVars, cvVars>>

\* the awaited autoCropImage(task.url) of task k rejects
autoCropRejects(k) ==
    /\ k \in calls
    /\ LET task == tasks[k]
       IN  /\ documents' = TaskFailed(documents, task)
           /\ calls' = (calls \ {k}) \cup CallsAfterCatch(k, Len(tasks))
           /\ batchLog' = Append(batchLog,
                            [task |-> k, docId |-> task.docId, itemId |-> task.itemId,
                             corners |-> NoPoints, outcome |-> "rejected",
                             before |-> TaskItems(documents, task),
                             after |-> TaskItems(documents', task)])
           /\ BatchContinues(successCount)
    /\ lastOp' = "other"
    /\ UNCHANGED <<batchHistory, nextDocId, nextItemId, preBatch, batches, moves, closures>>
    /\ UNCHANGED <<editorVars, cvVars>>

\* Variant: the undo clears the snapshot and leaves the working set.
RestoredDocsKept(docs, snapshot) == docs

\* setDocuments(batchHistory)
RestoredDocs(docs, snapshot) == snapshot

\* Variant: the undo keeps the snapshot.
HistoryAfterUndoKept(snapshot) == snapshot

\* setBatchHistory(null)
HistoryAfterUndo(snapshot) == NoSnapshot

\* if (batchHistory) { setDocuments(batchHistory); setBatchHistory(null); }
handleUndoBatch ==
    /\ IF batchHistory # NoSnapshot
       THEN /\ documents' = RestoredDocs(documents, batchHistory)
            /\ batchHistory' = HistoryAfterUndo(batchHistory)
            /\ lastOp' = "undoRestored"
       ELSE /\ lastOp' = "undoNoop"
            /\ UNCHANGED <<documents, batchHistory>>
    /\ UNCHANGED <<appIsProcessing, nextDocId, nextItemId>>
    /\ UNCHANGED frameBatch
    /\ UNCHANGED <<editorVars, cvVars>>

(***************************************************************************)
(* cvService: waitForCV.                                                   *)
(***************************************************************************)
\* Variant: the recursive call passes retries on unchanged.
RetriesAfterWaitSame(r) == r

\* return waitForCV(retries - 1)
RetriesAfterWait(r) == r - 1

frameWait == <<engineReady, cvFn, cvArgs, stages, live>>

\* The script of the vision engine finishes loading.
EngineLoads ==
    /\ ~engineReady
    /\ engineReady' = TRUE
    /\ UNCHANGED <<cvFn, cvPc, retries, waits, cvArgs, stages, live, cvResult, cvOutcome>>
    /\ UNCHANGED <<editorVars, appVars>>

\* One run of waitForCV's body up to its await: return when the engine is
\* there, throw when no retries are left, else start the 100 ms timer.  A throw
\* is caught by detectDocumentCorners (return null) and not by
\* applyPerspectiveCrop (its promise rejects).
waitForCVCheck ==
    /\ cvPc = "check"
    /\ IF engineReady
       THEN /\ cvPc' = "load"
            /\ retries' = 0
            /\ waits' = 0
            /\ UNCHANGED <<cvResult, cvOutcome>>
       ELSE IF retries <= 0
            THEN /\ cvPc' = "done"
                 /\ cvOutcome' = IF cvFn = "detect" THEN "resolved" ELSE "rejected"
                 /\ cvResult' = NoPoints
                 /\ UNCHANGED <<retries, waits>>
            ELSE /\ cvPc' = "sleep"
                 /\ UNCHANGED <<retries, waits, cvResult, cvOutcome>>
    /\ UNCHANGED frameWait
    /\ UNCHANGED <<editorVars, appVars>>

\* await new Promise(resolve => setTimeout(resolve, 100)); return waitForCV(retries - 1);
timerFires ==
    /\ cvPc = "sleep"
    /\ cvPc' = "check"
    /\ retries' = RetriesAfterWait(retries)
    /\ waits' = waits + 1
    /\ UNCHANGED <<cvResult, cvOutcome>>
    /\ UNCHANGED frameWait
    /\ UNCHANGED <<editorVars, appVars>>

\* The caller has its answer; the service is free for the next call.
cvSettled ==
    /\ cvPc = "done"
    /\ cvPc' = "idle"
    /\ cvFn' = "none"
    /\ retries' = 0
    /\ waits' = 0
    /\ cvArgs' = << >>
    /\ stages' = << >>
    /\ live' = {}
    /\ cvResult' = NoPoints
    /\ cvOutcome' = "pending"
    /\ UNCHANGED engineReady
    /\ UNCHANGED <<editorVars, appVars>>

(***************************************************************************)
(* cvService: sortPoints.                                                  *)
(***************************************************************************)
\* The comparators: (a, b) => a.y - b.y, (a, b) => a.x - b.x, (a, b) => b.x - a.x;
\* Before: the comparator puts a strictly before b.
Before(a, b, order) ==
    IF order = "y" THEN a.y < b.y
    ELSE IF order = "x" THEN a.x < b.x
    ELSE a.x > b.x

\* p placed behind every element the comparator does not put after it
\* (Array.prototype.sort is stable).
RECURSIVE InsertBy(_, _, _)
InsertBy(sorted, p, order) ==
    IF sorted = << >> THEN <<p>>
    ELSE IF Before(p, Head(sorted), order) THEN <<p>> \o sorted
    ELSE <<Head(sorted)>> \o InsertBy(Tail(sorted), p, order)

RECURSIVE SortBy(_, _)
SortBy(pts, order) ==
    IF pts = << >> THEN << >>
    ELSE InsertBy(SortBy(SubSeq(pts, 1, Len(pts) - 1), order), pts[Len(pts)], order)

\* Variant: the points are not sorted by y before they are split.
sortPointsNoYSort(pts) ==
    LET top == SortBy(SubSeq(pts, 1, 2), "x")
        bottom == SortBy(SubSeq(pts, 3, 4), "xdesc")
    IN  <<top[1], top[2], bottom[1], bottom[2]>>

sortPoints(pts) ==
    LET sorted == SortBy(pts, "y")
        top == SortBy(SubSeq(sorted, 1, 2), "x")
        bottom == SortBy(SubSeq(sorted, 3, 4), "xdesc")
    IN  <<top[1], top[2], bottom[1], bottom[2]>>

(***************************************************************************)
(* cvService: detectDocumentCorners and findContourPoints.  What OpenCV    *)
(* finds in the pixels is an input: a list of contours per pipeline, each  *)
(* with its contourArea, the rows of its approxPolyDP polygon, that        *)
(* polygon's vertices (when there are 4) and the vertices of its           *)
(* minAreaRect, in the coordinates of the resized image; and the OpenCV    *)
(* call that throws, if one does.                                          *)
(***************************************************************************)
\* Math.round(a / b) for a >= 0, b > 0
RoundDiv(a, b) == (2 * a + b) \div (2 * b)

\* scale = Math.min(maxDim / src.rows, maxDim / src.cols), kept as the
\* fraction DetectMaxDim / ScaleDen
ScaleDen == Max(NaturalWidth, NaturalHeight)

ResizedCols == RoundDiv(NaturalWidth * DetectMaxDim, ScaleDen)
ResizedRows == RoundDiv(NaturalHeight * DetectMaxDim, ScaleDen)

\* resized.rows * resized.cols
TotalArea == ResizedRows * ResizedCols

\* { x: Math.round(v.x / scale), y: Math.round(v.y / scale) }
ToSource(v) == Pt(RoundDiv(v.x * ScaleDen, DetectMaxDim), RoundDiv(v.y * ScaleDen, DetectMaxDim))

Contour(area, rows, approx, rect) == [area |-> area, rows |-> rows, approx |-> approx, rect |-> rect]

Rect4(l, t, r, b) == <<Pt(l, t), Pt(r, t), Pt(r, b), Pt(l, b)>>

\* The contours an image can show: a speck under the area threshold, a
\* 4-vertex contour of exactly 1% of an 800 x 400 image, two quadrilaterals,
\* and two contours that are not quadrilaterals, one as large as the smaller
\* quadrilateral and one larger than both.
ContourCatalogue ==
    { Contour(3000, 4, Rect4(10, 10, 70, 60), Rect4(10, 10, 70, 60)),
      Contour(3200, 4, Rect4(400, 200, 480, 240), Rect4(400, 200, 480, 240)),
      Contour(50000, 4, <<Pt(120, 80), Pt(680, 40), Pt(640, 320), Pt(160, 360)>>,
              Rect4(120, 40, 680, 360)),
      Contour(80000, 4, Rect4(80, 40, 720, 360), Rect4(80, 40, 720, 360)),
      Contour(50000, 5, << >>, Rect4(200, 120, 600, 280)),
      Contour(120000, 6, << >>, Rect4(40, 40, 760, 360)) }

ContourLists ==
    {<< >>} \cup {<<c>> : c \in ContourCatalogue}
            \cup {<<c, d>> : c \in ContourCatalogue, d \in ContourCatalogue}

\* The OpenCV call that throws: <<call, pipeline>>.
NoThrow == <<"none", "top">>
ThrowPoints ==
    { NoThrow, <<"imread", "top">>, <<"resize", "top">>, <<"cvtColor", "top">>,
      <<"Canny", "top">>, <<"findContours", "A">>, <<"adaptiveThreshold", "B">>,
      <<"findContours", "B">> }

Mat(name, pipeline, index) == <<name, pipeline, index>>

TopMats(names) == {Mat(n, "top", 0) : n \in names}

AllTopMats == TopMats({"src", "resized", "gray", "blurred", "edged", "kernel"})

NoCandidate == << >>

\* The for loop of findContourPoints from index i on: best is the candidate so
\* far (none, or one record naming the contour, the shape taken from it and
\* its points scaled back), maxArea the area it was taken at.
\* Variant: a 4-vertex candidate is never replaced by a rotated rectangle.
RECURSIVE ContourLoopQuadKept(_, _, _, _)
ContourLoopQuadKept(contours, i, best, maxArea) ==
    IF i > Len(contours) THEN best
    ELSE LET cnt == contours[i] IN
         IF 100 * cnt.area < TotalArea THEN ContourLoopQuadKept(contours, i + 1, best, maxArea)
         ELSE IF cnt.rows = 4 /\ (cnt.area > maxArea \/ (best # << >> /\ best[1].shape = "rect"))
              THEN ContourLoopQuadKept(contours, i + 1,
                       <<[from |-> i, shape |-> "approx",
                          pts |-> [j \in 1..4 |-> ToSource(cnt.approx[j])]]>>, cnt.area)
         ELSE IF cnt.area > maxArea /\ (best = << >> \/ best[1].shape = "rect")
              THEN ContourLoopQuadKept(contours, i + 1,
                       <<[from |-> i, shape |-> "rect",
                          pts |-> [j \in 1..4 |-> ToSource(cnt.rect[j])]]>>, cnt.area)
         ELSE ContourLoopQuadKept(contours, i + 1, best, maxArea)

RECURSIVE ContourLoop(_, _, _, _)
ContourLoop(contours, i, best, maxArea) ==
    IF i > Len(contours) THEN best
    ELSE LET cnt == contours[i] IN
         IF 100 * cnt.area < TotalArea THEN ContourLoop(contours, i + 1, best, maxArea)
         ELSE IF cnt.rows = 4 /\ cnt.area > maxArea
              THEN ContourLoop(contours, i + 1,
                       <<[from |-> i, shape |-> "approx",
                          pts |-> [j \in 1..4 |-> ToSource(cnt.approx[j])]]>>, cnt.area)
         ELSE IF cnt.area > maxArea
              THEN ContourLoop(contours, i + 1,
                       <<[from |-> i, shape |-> "rect",
                          pts |-> [j \in 1..4 |-> ToSource(cnt.rect[j])]]>>, cnt.area)
         ELSE ContourLoop(contours, i + 1, best, maxArea)

\* One call of findContourPoints: the candidate, the points returned, the mats
\* it leaves allocated, and whether it threw.  cv.findContours throws with
\* contours and hierarchy allocated; otherwise contours and hierarchy are
\* deleted, every approx is deleted, and no cnt = contours.get(i) is.
findContourPoints(pipeline, contours, throws) ==
    IF throws
    THEN [cand |-> NoCandidate, points |-> NoPoints, threw |-> TRUE,
          live |-> {Mat("contours", pipeline, 0), Mat("hierarchy", pipeline, 0)}]
    ELSE LET best == ContourLoop(contours, 1, NoCandidate, 0) IN
         [cand |-> best,
          points |-> IF best = NoCandidate THEN NoPoints ELSE sortPoints(best[1].pts),
          threw |-> FALSE,
          live |-> {Mat("cnt", pipeline, i) : i \in 1..Len(contours)}]

\* Variant: the adaptive-threshold pipeline runs whatever the first one found.
NextPipelineAlways(last, found) ==
    IF last = "A" THEN "B" ELSE "none"

\* if (!bestPoints) { ... adaptive threshold ... } and nothing after it
NextPipeline(last, found) ==
    IF found THEN "none"
    ELSE IF last = "A" THEN "B"
    ELSE "none"

\* The try block of img.onload from the contour search of a pipeline on.
RECURSIVE RunPipelines(_, _, _, _, _)
RunPipelines(pipeline, cont, throwAt, liveSoFar, done) ==
    LET thresh == IF pipeline = "A" THEN {} ELSE {Mat("thresh", pipeline, 0)}
        run == findContourPoints(pipeline, cont[pipeline], throwAt = <<"findContours", pipeline>>)
    IN  IF throwAt = <<"adaptiveThreshold", pipeline>>
        THEN [result |-> NoPoints, stages |-> done, threw |-> TRUE,
              live |-> liveSoFar \cup thresh]
        ELSE IF run.threw
        THEN [result |-> NoPoints, stages |-> done, threw |-> TRUE,
              live |-> liveSoFar \cup thresh \cup run.live]
        ELSE LET done2 == Append(done, [stage |-> pipeline, cand |-> run.cand])
                 next == NextPipeline(pipeline, run.points # NoPoints)
             IN  IF next = "none"
                 THEN [result |-> run.points, stages |-> done2, threw |-> FALSE,
                       live |-> (liveSoFar \cup run.live) \ AllTopMats]
                 ELSE RunPipelines(next, cont, throwAt, liveSoFar \cup run.live, done2)

\* Variant: the catch block lets the error settle the promise as a rejection.
DetectSettlesRethrow(threw) ==
    IF threw THEN "rejected" ELSE "resolved"

\* resolve(bestPoints) / catch (err) { resolve(null) }
DetectSettles(threw) == "resolved"

\* img.onload of detectDocumentCorners as a whole.
DetectRun(cont, throwAt) ==
    IF throwAt = <<"imread", "top">>
    THEN [result |-> NoPoints, stages |-> << >>, threw |-> TRUE, live |-> {}]
    ELSE IF throwAt = <<"resize", "top">>
    THEN [result |-> NoPoints, stages |-> << >>, threw |-> TRUE,
          live |-> TopMats({"src", "resized"})]
    ELSE IF throwAt \in {<<"cvtColor", "top">>, <<"Canny", "top">>}
    THEN [result |-> NoPoints, stages |-> << >>, threw |-> TRUE,
          live |-> TopMats({"src", "resized", "gray", "blurred", "edged"})]
    ELSE RunPipelines("A", cont, throwAt, AllTopMats, << >>)

\* const corners = await detectDocumentCorners(url): the call enters waitForCV().
detectDocumentCorners ==
    /\ cvPc = "idle"
    /\ cvFn' = "detect"
    /\ cvPc' = "check"
    /\ retries' = MaxRetries
    /\ waits' = 0
    /\ UNCHANGED <<engineReady, cvArgs, stages, live, cvResult, cvOutcome>>
    /\ UNCHANGED <<editorVars, appVars>>

detectOnLoad(contA, contB, throwAt) ==
    /\ cvFn = "detect"
    /\ cvPc = "load"
    /\ LET run == DetectRun([A |-> contA, B |-> contB], throwAt) IN
        /\ cvArgs' = <<[contA |-> contA, contB |-> contB, throwAt |-> throwAt,
                        event |-> "load", threw |-> run.threw]>>
        /\ stages' = run.stages
        /\ live' = run.live
        /\ cvResult' = run.result
        /\ cvOutcome' = DetectSettles(run.threw)
    /\ cvPc' = "done"
    /\ UNCHANGED <<engineReady, cvFn, retries, waits>>
    /\ UNCHANGED <<editorVars, appVars>>

\* img.onerror = () => resolve(null)
detectOnError ==
    /\ cvFn = "detect"
    /\ cvPc = "load"
    /\ cvArgs' = <<[contA |-> << >>, contB |-> << >>, throwAt |-> NoThrow,
                    event |-> "error", threw |-> FALSE]>>
    /\ cvResult' = NoPoints
    /\ cvOutcome' = "resolved"
    /\ cvPc' = "done"
    /\ UNCHANGED <<engineReady, cvFn, retries, waits, stages, live>>
    /\ UNCHANGED <<editorVars, appVars>>

(***************************************************************************)
(* cvService: applyPerspectiveCrop.  The points of the call are drawn when *)
(* img.onload uses them: nothing reads them before.  The corners reach it  *)
(* from the editor's handles, which can be dragged onto and across each    *)
(* other, so any 4 points can come.                                        *)
(***************************************************************************)
\* The corners a caller can hand over: any 4 points of a small grid, equal
\* and collinear ones included.
GridPoints == {Pt(x, y) : x \in 0..GridMax, y \in 0..GridMax}
WideGridPoints == {Pt(x, y) : x \in 0..(GridMax + 1), y \in 0..(GridMax + 1)}

\* No two of the points share an x or a y coordinate.
NoTies(pts) ==
    \A i \in 1..4, j \in 1..4 : i # j => (pts[i].x # pts[j].x /\ pts[i].y # pts[j].y)

\* Every list of 4 points of the grid, and every list without ties of the grid
\* one wider (the smallest that has such lists).
CornerLists ==
    {<<a, b, c, d>> : a \in GridPoints, b \in GridPoints, c \in GridPoints, d \in GridPoints}
        \cup {pts \in {<<a, b, c, d>> : a \in WideGridPoints, b \in WideGridPoints,
                                        c \in WideGridPoints, d \in WideGridPoints} :
                 NoTies(pts)}

\* The calls whose OpenCV step may throw: the corners on one or two points,
\* and the corners of the whole grid.
ThrowingCornerLists ==
    {<<a, b, b, b>> : a \in GridPoints, b \in GridPoints}
        \cup {<<Pt(0, 0), Pt(GridMax, 0), Pt(GridMax, GridMax), Pt(0, GridMax)>>}

CropUrl == <<"a">>

CropThrowPoints ==
    { NoThrow, <<"imread", "crop">>, <<"getPerspectiveTransform", "crop">>,
      <<"warpPerspective", "crop">>, <<"imshow", "crop">> }

\* Math.hypot(a.x - b.x, a.y - b.y), squared: Math.max of two lengths is the
\* length whose square is the larger.
Dist2(a, b) == (a.x - b.x) * (a.x - b.x) + (a.y - b.y) * (a.y - b.y)

\* What img.onload computes from the corners handed over: srcCoords, the
\* target size (as squares) and dstCoords, corner j of srcCoords going to
\* corner j of dstCoords.
PlanOf(sorted) ==
    LET widthA2 == Dist2(sorted[3], sorted[4])
        widthB2 == Dist2(sorted[2], sorted[1])
        targetW2 == Max(widthA2, widthB2)
        heightA2 == Dist2(sorted[2], sorted[3])
        heightB2 == Dist2(sorted[1], sorted[4])
        targetH2 == Max(heightA2, heightB2)
    IN  [srcCoords |-> sorted, targetW2 |-> targetW2, targetH2 |-> targetH2,
         dstCoords |-> <<[x2 |-> 0, y2 |-> 0], [x2 |-> targetW2, y2 |-> 0],
                         [x2 |-> targetW2, y2 |-> targetH2], [x2 |-> 0, y2 |-> targetH2]>>]

\* The corners are numbers, not whole pixels (a drag adds a client distance
\* times natW / rectW): a grid step is 1 / GridPerPixel of a pixel.  A size
\* given as the square t2 of a length in grid steps is at least k pixels when
\* (k * GridPerPixel)^2 <= t2.
TruncPx(t2) ==
    CHOOSE k \in 0..t2 : /\ (k * GridPerPixel) * (k * GridPerPixel) <= t2
                         /\ t2 < ((k + 1) * GridPerPixel) * ((k + 1) * GridPerPixel)

\* Math.round of the length: k - 1/2 <= length < k + 1/2.
RoundPx(t2) ==
    CHOOSE k \in 0..(t2 + 1) :
        /\ k = 0 \/ ((2 * k - 1) * GridPerPixel) * ((2 * k - 1) * GridPerPixel) <= 4 * t2
        /\ 4 * t2 < ((2 * k + 1) * GridPerPixel) * ((2 * k + 1) * GridPerPixel)

\* new cv.Size(targetW, targetH) is handed the lengths as they are, not
\* rounded; the binding makes integers of them, by truncation or by rounding.
ToInt(t2, conv) == IF conv = "trunc" THEN TruncPx(t2) ELSE RoundPx(t2)

\* The size of dst after cv.warpPerspective(src, dst, M, new cv.Size(targetW,
\* targetH), ...): the size asked for, or the size of src when that is empty.
OutputSize(plan, conv) ==
    LET w == ToInt(plan.targetW2, conv)
        h == ToInt(plan.targetH2, conv)
    IN  IF w = 0 \/ h = 0 THEN <<NaturalWidth, NaturalHeight>> ELSE <<w, h>>

\* Variant: the corners are used in the order they were handed over.
CropPlanAsGiven(pts) == PlanOf(pts)

\* const sorted = sortPoints(points); ...
CropPlan(pts) == PlanOf(sortPoints(pts))

\* img.onload of applyPerspectiveCrop as a whole: the catch block rejects
\* without a delete; there is no test of the geometry, so every quadrilateral
\* is warped, and what OpenCV does with a degenerate one is either a throw
\* (one of the throw points) or an image.
CropRun(url, pts, throwAt) ==
    LET made(names) == {Mat(n, "crop", 0) : n \in names} IN
    IF throwAt = <<"imread", "crop">>
    THEN [outcome |-> "rejected", result |-> NoUrl, live |-> {}]
    ELSE IF throwAt = <<"getPerspectiveTransform", "crop">>
    THEN [outcome |-> "rejected", result |-> NoUrl,
          live |-> made({"src", "srcCoords", "dstCoords"})]
    ELSE IF throwAt \in {<<"warpPerspective", "crop">>, <<"imshow", "crop">>}
    THEN [outcome |-> "rejected", result |-> NoUrl,
          live |-> made({"src", "srcCoords", "dstCoords", "M", "dst"})]
    ELSE [outcome |-> "resolved", result |-> CroppedUrl(url), live |-> {}]

\* applyPerspectiveCrop(url, points): the call enters waitForCV().
applyPerspectiveCrop ==
    /\ cvPc = "idle"
    /\ cvFn' = "crop"
    /\ cvPc' = "check"
    /\ retries' = MaxRetries
    /\ waits' = 0
    /\ UNCHANGED <<engineReady, cvArgs, stages, live, cvResult, cvOutcome>>
    /\ UNCHANGED <<editorVars, appVars>>

cropOnLoad(pts, throwAt, conv) ==
    /\ cvFn = "crop"
    /\ cvPc = "load"
    /\ LET run == CropRun(CropUrl, pts, throwAt) IN
        /\ cvArgs' = <<[points |-> pts, plan |-> CropPlan(pts), throwAt |-> throwAt,
                        event |-> "load", threw |-> throwAt # NoThrow,
                        size |-> IF throwAt = NoThrow
                                 THEN OutputSize(CropPlan(pts), conv) ELSE << >>]>>
        /\ live' = run.live
        /\ cvResult' = run.result
        /\ cvOutcome' = run.outcome
    /\ cvPc' = "done"
    /\ UNCHANGED <<engineReady, cvFn, retries, waits, stages>>
    /\ UNCHANGED <<editorVars, appVars>>

\* img.onerror = reject
cropOnError ==
    /\ cvFn = "crop"
    /\ cvPc = "load"
    /\ cvArgs' = <<[points |-> NoPoints, plan |-> << >>, throwAt |-> NoThrow,
                    event |-> "error", threw |-> FALSE, size |-> << >>]>>
    /\ cvResult' = NoUrl
    /\ cvOutcome' = "rejected"
    /\ cvPc' = "done"
    /\ UNCHANGED <<engineReady, cvFn, retries, waits, stages, live>>
    /\ UNCHANGED <<editorVars, appVars>>

(***************************************************************************)
(* cvService: sortPoints on its own, applied to 4 points handed over.      *)
(***************************************************************************)
SortPoints == {Pt(x, y) : x \in 0..SortGridMax, y \in 0..SortGridMax}
SortInputs == SortPoints \X SortPoints \X SortPoints \X SortPoints

\* sortPoints(pts) for the points held in cvArgs.
sortPointsCall ==
    /\ cvFn = "none"
    /\ cvPc = "idle"
    /\ cvArgs # << >>
    /\ cvFn' = "sort"
    /\ cvPc' = "done"
    /\ cvResult' = sortPoints(cvArgs[1].points)
    /\ UNCHANGED <<engineReady, retries, waits, cvArgs, stages, live, cvOutcome>>
    /\ UNCHANGED <<editorVars, appVars>>

\* The output is handed over as the input of a next call, as
\* applyPerspectiveCrop does with the corners findContourPoints sorted.
sortPointsFeedBack ==
    /\ cvFn = "sort"
    /\ cvPc = "done"
    /\ cvFn' = "none"
    /\ cvPc' = "idle"
    /\ cvArgs' = <<[points |-> cvResult]>>
    /\ cvResult' = NoPoints
    /\ UNCHANGED <<engineReady, retries, waits, stages, live, cvOutcome>>
    /\ UNCHANGED <<editorVars, appVars>>

(***************************************************************************)
(* Specifications.                                                         *)
(***************************************************************************)
\* Everything but the working set and the arguments of the cvService call.
InitExceptInputs ==
    /\ isOpen = FALSE
    /\ itemUrl = <<"a">>
    /\ history = << >>
    /\ currentIndex = 0
    /\ isProcessing = FALSE
    /\ activeTool = "crop"
    /\ points = NoPoints
    /\ isDragging = FALSE
    /\ dragInfo = 0
    /\ brightness = DefaultBrightness
    /\ contrast = DefaultContrast
    /\ rotation = 0
    /\ zoom = ZoomInitial
    /\ isPanning = FALSE
    /\ isSpacePressed = FALSE
    /\ spaceHeld = FALSE
    /\ panStartRef = Pt(0, 0)
    /\ scrollStartRef = [left |-> 0, top |-> 0]
    /\ dragStartPosRef = Pt(0, 0)
    /\ initialPointsRef = NoPoints
    /\ scroll = [left |-> 0, top |-> 0]
    /\ imageLoaded = FALSE
    /\ sessions = 0
    /\ lastEvent = "none"
    /\ moved = << >>
    /\ detecting = FALSE
    /\ detectLog = << >>
    /\ pendingSaves = {}
    /\ saveLog = << >>
    /\ onUpdateArg = NoUrl
    /\ batchHistory = NoSnapshot
    /\ appIsProcessing = FALSE
    /\ tasks = << >>
    /\ calls = {}
    /\ successCount = 0
    /\ toast = "none"
    /\ preBatch = << >>
    /\ batchLog = << >>
    /\ batches = 0
    /\ moves = 0
    /\ closures = {}
    /\ lastOp = "other"
    /\ engineReady = FALSE
    /\ cvFn = "none"
    /\ cvPc = "idle"
    /\ retries = 0
    /\ waits = 0
    /\ stages = << >>
    /\ live = {}
    /\ cvResult = NoPoints
    /\ cvOutcome = "pending"

\* useState([{ id: '1', title: 'PDF 1', items: [], selected: false }])
InitExceptArgs ==
    /\ InitExceptInputs
    /\ documents = << NewDoc(1) >>
    /\ nextDocId = 2
    /\ nextItemId = 1

Init == InitExceptArgs /\ cvArgs = << >>

\* The editor: tools, enhancement parameters and Save.  A session is opened
\* on a source file or on the url the last Save handed to onUpdate.
NextSave ==
    \/ \E url \in {<<"a">>} \cup ({onUpdateArg} \ {NoUrl}) : OpenEditor(url)
    \/ CloseEditor
    \/ handleImageLoad
    \/ \E q \in DetectedQuads \cup {NoPoints} : handlePerformAutoDetection(q)
    \/ ToggleCrop
    \/ ToggleAdjust
    \/ \E v \in BrightnessValues : SetBrightness(v)
    \/ \E v \in ContrastValues : SetContrast(v)
    \/ RotateLeft
    \/ RotateRight
    \/ handleSave
    \/ \E p \in pendingSaves : SaveResolves(p)
    \/ \E p \in pendingSaves : SaveRejects(p)

SpecSave == Init /\ [][NextSave]_vars

\* Saves with every outcome of the awaited promise.  A promise that settles
\* does so in finite time: the image element fires load or error and waitForCV
\* gives up after MaxRetries polls.
NextSettle ==
    \/ \E url \in {<<"a">>} \cup ({onUpdateArg} \ {NoUrl}) : OpenEditor(url)
    \/ handleImageLoad
    \/ \E q \in DetectedQuads \cup {NoPoints} : handlePerformAutoDetection(q)
    \/ ToggleCrop
    \/ ToggleAdjust
    \/ \E v \in BrightnessValues : SetBrightness(v)
    \/ RotateRight
    \/ handleSave
    \/ \E p \in pendingSaves : SaveResolves(p)
    \/ \E p \in pendingSaves : SaveRejects(p)
    \/ \E p \in pendingSaves : AdjustNeverSettles(p)

SpecSettleFair ==
    /\ Init /\ [][NextSettle]_vars
    /\ WF_vars(\E p \in pendingSaves : SaveResolves(p) \/ SaveRejects(p))

\* The editor: pointer sessions on the corner handles and the viewport.
NextPointer ==
    \/ OpenEditor(<<"a">>)
    \/ handleImageLoad
    \/ \E q \in DetectedQuads \cup {NoPoints} : handlePerformAutoDetection(q)
    \/ ToggleCrop
    \/ \E p \in PointerDowns : handleMouseDown(p.x, p.y)
    \/ \E p \in PointerMoves : handleWindowMouseMove(p.x, p.y)
    \/ handleWindowMouseUp

SpecPointer == Init /\ [][NextPointer]_vars

\* Pointer events while a Save is awaited (the Save may fail and leave the
\* editor open).
NextGuard ==
    \/ NextPointer
    \/ handleSave
    \/ \E p \in pendingSaves : SaveRejects(p)

SpecGuard == Init /\ [][NextGuard]_vars

\* Sessions one after the other: the editor is used (tools, drags, zoom,
\* brightness), left by Close or by a Save, and opened again on the item.
NextReopen ==
    \/ \E url \in {<<"a">>} \cup ({onUpdateArg} \ {NoUrl}) : OpenEditor(url)
    \/ CloseEditor
    \/ handleImageLoad
    \/ \E q \in DetectedQuads : handlePerformAutoDetection(q)
    \/ ToggleCrop
    \/ ToggleAdjust
    \/ sessions = 0 /\ \E v \in BrightnessValues : SetBrightness(v)
    \/ sessions = 0 /\ zoom = ZoomInitial /\ ZoomIn
    \/ sessions = 0 /\ \E p \in ViewDowns : handleMouseDown(p.x, p.y)
    \/ \E p \in ViewMoves : handleWindowMouseMove(p.x, p.y)
    \/ handleWindowMouseUp
    \/ handleSave
    \/ \E p \in pendingSaves : SaveResolves(p)

SpecReopen == Init /\ [][NextReopen]_vars

\* (The drop position of a moved item is -1 for null, the end of the column,
\* or 0, the top.)
\* The application shell: the working set, batch autocrop and undo.
NextBatch ==
    \/ handleAddDocument
    \/ \E d \in DOMAIN documents, sel \in BOOLEAN :
          handleToggleColumnSelection(documents[d].id, sel)
    \/ \E d \in DOMAIN documents, type \in {"image", "pdf"} :
          handleAddItem(documents[d].id, type)
    \/ \E d \in DOMAIN documents : \E k \in DOMAIN documents[d].items :
          handleRestoreItem(documents[d].id, documents[d].items[k].id)
    \/ \E d \in DOMAIN documents, t \in DOMAIN documents :
          \E k \in DOMAIN documents[d].items, targetIndex \in {-1, 0} :
              handleMoveItem(documents[d].id, documents[d].items[k].id,
                             documents[t].id, targetIndex)
    \/ handleClearAll
    \/ handleBatchAutoCrop
    \/ \E k \in calls, q \in DetectedQuads \cup {NoPoints} : autoCropResolves(k, q)
    \/ \E k \in calls : autoCropRejects(k)
    \/ handleUndoBatch

SpecBatch == Init /\ [][NextBatch]_vars

\* handleMoveItem on the working sets of 2 groups holding MoveItems items in
\* the order they were added, for ids that exist and ids that do not, and
\* every drop position (-1 for null).
MoveSets ==
    {<<[NewDoc(1) EXCEPT !.items = [k \in 1..x[1] |-> NewItem(k, x[2])]],
       [NewDoc(2) EXCEPT !.items =
            [k \in 1..(MoveItems - x[1]) |-> NewItem(x[1] + k, "image")]]>> :
        x \in (0..MoveItems) \X {"image", "pdf"}}

InitMove ==
    /\ InitExceptInputs
    /\ cvArgs = << >>
    /\ documents \in MoveSets
    /\ nextDocId = 3
    /\ nextItemId = MoveItems + 1

MoveArgs == (1..3) \X (1..(MoveItems + 1)) \X (1..3) \X (-1..MoveItems)

NextMove ==
    \/ \E d \in DOMAIN documents, sel \in BOOLEAN :
          handleToggleColumnSelection(documents[d].id, sel)
    \/ \E a \in MoveArgs : handleMoveItem(a[1], a[2], a[3], a[4])

SpecMove == InitMove /\ [][NextMove]_vars

\* Everything that rewrites an item: editor Save, rotate, batch autocrop,
\* restore, undo, move and reset.
NextOriginal ==
    \/ handleAddDocument
    \/ nextItemId = 1 /\ handleAddItem(documents[1].id, "image")
    \/ \E d \in DOMAIN documents : handleToggleColumnSelection(documents[d].id, TRUE)
    \/ \E d \in DOMAIN documents : \E k \in DOMAIN documents[d].items :
          \/ closures = {} /\ handleEditItem(documents[d].id, documents[d].items[k].id)
          \/ closures = {} /\ handleRotateItem(documents[d].id, documents[d].items[k].id)
          \/ handleRestoreItem(documents[d].id, documents[d].items[k].id)
          \/ handleResetToOriginal(documents[d].id, documents[d].items[k].id)
          \/ \E t \in DOMAIN documents :
                handleMoveItem(documents[d].id, documents[d].items[k].id,
                               documents[t].id, 0)
    \/ \E c \in closures : handleUpdateItem(c, ResultUrl(CropCall(c.item.url, NoPoints)))
    \/ \E c \in closures : handleRotateItemLoaded(c)
    \/ batches = 0 /\ handleBatchAutoCrop
    \/ \E k \in calls : autoCropResolves(k, CHOOSE q \in DetectedQuads : TRUE)
    \/ handleUndoBatch

SpecOriginal == Init /\ [][NextOriginal]_vars

\* The document groups: added, deleted (by an id that exists or not), cleared,
\* rewritten by the batch and put back by undo.
NextGroups ==
    \/ handleAddDocument
    \/ \E id \in 1..(MaxDocIds + 1) : handleDeleteDocument(id)
    \/ handleClearAll
    \/ \E d \in DOMAIN documents, sel \in BOOLEAN :
          handleToggleColumnSelection(documents[d].id, sel)
    \/ \E d \in DOMAIN documents : handleAddItem(documents[d].id, "image")
    \/ handleBatchAutoCrop
    \/ \E k \in calls, q \in DetectedQuads \cup {NoPoints} : autoCropResolves(k, q)
    \/ \E k \in calls : autoCropRejects(k)
    \/ handleUndoBatch

SpecGroups == Init /\ [][NextGroups]_vars

\* The callers of detectDocumentCorners: the editor's auto-detection and the batch.
NextFallback ==
    \/ OpenEditor(<<"a">>)
    \/ CloseEditor
    \/ handleImageLoad
    \/ \E q \in DetectedQuads \cup {NoPoints} : handlePerformAutoDetection(q)
    \/ \E d \in DOMAIN documents, sel \in BOOLEAN :
          handleToggleColumnSelection(documents[d].id, sel)
    \/ \E d \in DOMAIN documents, type \in {"image", "pdf"} :
          handleAddItem(documents[d].id, type)
    \/ handleBatchAutoCrop
    \/ \E k \in calls, q \in DetectedQuads \cup {NoPoints} : autoCropResolves(k, q)
    \/ \E k \in calls : autoCropRejects(k)

SpecFallback == Init /\ [][NextFallback]_vars

\* One detection call after another, the engine loading at any moment or never.
NextDetect ==
    \/ EngineLoads
    \/ detectDocumentCorners
    \/ waitForCVCheck
    \/ timerFires
    \/ \E contA \in ContourLists, contB \in ContourLists, throwAt \in ThrowPoints :
           detectOnLoad(contA, contB, throwAt)
    \/ detectOnError
    \/ cvSettled

SpecDetect == Init /\ [][NextDetect]_vars

\* The timer of setTimeout fires and the continuation of an async function
\* runs: the event loop leaves neither waiting forever.
SpecDetectFair == SpecDetect /\ WF_vars(waitForCVCheck) /\ WF_vars(timerFires)


\* One rectification call after another.
NextRectify ==
    \/ EngineLoads
    \/ applyPerspectiveCrop
    \/ waitForCVCheck
    \/ timerFires
    \/ \E pts \in CornerLists, conv \in {"trunc", "round"} : cropOnLoad(pts, NoThrow, conv)
    \/ \E pts \in ThrowingCornerLists, throwAt \in CropThrowPoints :
           cropOnLoad(pts, throwAt, "trunc")
    \/ cropOnError
    \/ cvSettled

SpecRectify == Init /\ [][NextRectify]_vars

\* Detection and rectification calls, one at a time.
NextCv == NextDetect \/ NextRectify

SpecCv == Init /\ [][NextCv]_vars


\* sortPoints applied to every list of 4 grid points.
InitSort == InitExceptArgs /\ cvArgs \in {<<[points |-> pts]>> : pts \in SortInputs}

NextSort ==
    \/ sortPointsCall
    \/ sortPointsFeedBack

SpecSort == InitSort /\ [][NextSort]_vars


\* The editor: the zoom buttons.
NextZoom ==
    \/ OpenEditor(<<"a">>)
    \/ handleImageLoad
    \/ \E q \in DetectedQuads \cup {NoPoints} : handlePerformAutoDetection(q)
    \/ ToggleCrop
    \/ ToggleAdjust
    \/ \E b \in BrightnessValues : SetBrightness(b)
    \/ ZoomIn
    \/ ZoomOut

SpecZoom == Init /\ [][NextZoom]_vars

\* The editor: opening, closing, detection on load, the tools and the pointer.
\* The browser fires the image's load event and the awaited detection settles.
NextEntry ==
    \/ NextPointer
    \/ CloseEditor
    \/ ToggleAdjust

SpecEntryFair ==
    /\ Init /\ [][NextEntry]_vars
    /\ WF_vars(handleImageLoad)
    /\ WF_vars(\E q \in DetectedQuads \cup {NoPoints} : handlePerformAutoDetection(q))

\* The editor: the pointer handlers and the Space key.
NextModifier ==
    \/ NextPointer
    \/ \E down \in BOOLEAN : SpaceKey(down)

SpecModifier == Init /\ [][NextModifier]_vars

\* The editor: the pointer handlers at every zoom (the zoom is chosen before
\* the first pointer session).
NextView ==
    \/ OpenEditor(<<"a">>)
    \/ handleImageLoad
    \/ \E q \in DetectedQuads : handlePerformAutoDetection(q)
    \/ ToggleCrop
    \/ sessions = 0 /\ ZoomIn
    \/ sessions = 0 /\ ZoomOut
    \/ \E p \in ViewDowns : handleMouseDown(p.x, p.y)
    \/ \E p \in ViewMoves : handleWindowMouseMove(p.x, p.y)
    \/ handleWindowMouseUp

SpecView == Init /\ [][NextView]_vars

Next == NextSave \/ NextSettle \/ NextPointer \/ NextGuard \/ NextReopen \/ NextZoom \/ NextView \/ NextModifier \/ NextEntry \/ NextBatch \/ NextMove \/ NextOriginal \/ NextGroups \/ NextFallback \/ NextCv \/ NextSort

Spec == Init /\ [][Next]_vars

(***************************************************************************)
(* Properties of Save (SpecSave).                                          *)
(***************************************************************************)
SaveMade == saveLog # << >> /\ ~saveLog[1].failed
SaveInput == saveLog[1]
SaveCropCase == SaveInput.tool = "crop" /\ SaveInput.points # NoPoints
SaveAdjustCase ==
    SaveInput.brightness # 100 \/ SaveInput.contrast # 100 \/ SaveInput.rotation # 0

\* C1: a Save with tool = crop and a quadrilateral calls applyPerspectiveCrop
\* exactly once, on the current image with the current quadrilateral, and never
\* applyImageAdjustments, whatever brightness, contrast and rotation are; the
\* call is awaited while the modal is open and nothing is handed back before it
\* settles.
C1_SaveCropRectifiesOnly ==
    (SaveMade /\ SaveCropCase) =>
        /\ SaveInput.calls = << CropCall(SaveInput.image, SaveInput.points) >>
        /\ \A k \in DOMAIN SaveInput.calls : SaveInput.calls[k].fn # "applyImageAdjustments"
        /\ isOpen => [call |-> CropCall(SaveInput.image, SaveInput.points),
                       stale |-> FALSE] \in pendingSaves
        /\ SaveInput.handedBack = NoUrl

\* C1 witness: the save of the scenario (crop, quadrilateral, brightness 150) has
\* completed with the rectified image.
C1_Witness ==
    /\ SaveMade /\ SaveCropCase
    /\ SaveInput.brightness = 150
    /\ ~isOpen
    /\ onUpdateArg = Append(SaveInput.image, "crop")

\* C2: a Save outside the crop case with a non-default brightness, contrast or
\* rotation calls applyImageAdjustments exactly once with the three current
\* values, and does not call applyPerspectiveCrop.
C2_SaveEnhancesOnce ==
    (SaveMade /\ ~SaveCropCase /\ SaveAdjustCase) =>
        /\ SaveInput.calls = << AdjustCall(SaveInput.image, SaveInput.brightness,
                                           SaveInput.contrast, SaveInput.rotation) >>
        /\ \A k \in DOMAIN SaveInput.calls : SaveInput.calls[k].fn # "applyPerspectiveCrop"
        /\ isOpen => [call |-> SaveInput.calls[1], stale |-> FALSE] \in pendingSaves
        /\ SaveInput.handedBack = NoUrl

\* C2 witness: a save with only the brightness changed, with tool = crop before
\* any quadrilateral exists, is awaiting its enhancement.
C2_Witness ==
    /\ SaveMade /\ ~SaveCropCase /\ SaveAdjustCase
    /\ SaveInput.tool = "crop" /\ SaveInput.points = NoPoints
    /\ SaveInput.brightness = 150 /\ SaveInput.contrast = 100 /\ SaveInput.rotation = 0
    /\ isOpen /\ pendingSaves # {}

\* C3: a Save in neither case calls no transform and hands the item back with
\* the url of the current image.
C3_SaveNoOp ==
    (SaveMade /\ ~SaveCropCase /\ ~SaveAdjustCase) =>
        /\ SaveInput.calls = << >>
        /\ SaveInput.handedBack = SaveInput.image
        /\ ~isOpen

\* C3 witness: with a quadrilateral detected and tool = none, a save of an image
\* that an earlier save had rectified has passed it through.
C3_Witness ==
    /\ SaveMade /\ ~SaveCropCase /\ ~SaveAdjustCase
    /\ SaveInput.tool = "none" /\ SaveInput.points # NoPoints
    /\ SaveInput.image = <<"a", "crop">>
    /\ onUpdateArg = <<"a", "crop">>

(***************************************************************************)
(* Properties of the pointer sessions (SpecPointer).                       *)
(***************************************************************************)
Inside(p) == 0 <= p.x /\ p.x <= NaturalWidth /\ 0 <= p.y /\ p.y <= NaturalHeight
Idle == ~isDragging /\ ~isPanning
SessionData == <<dragInfo, dragStartPosRef, initialPointsRef, panStartRef, scrollStartRef>>

\* C4: after a corner move the dragged corner lies in [0, W] x [0, H], exactly
\* on a bound in each coordinate that the move took to or beyond that bound,
\* and where asked otherwise; every corner of the quadrilateral stays inside.
C4_DragClamped ==
    /\ points # NoPoints => \A i \in 1..4 : Inside(points[i])
    /\ moved # << >> =>
          LET p == points[dragInfo]
              target == moved[1]
          IN  /\ Inside(p)
              /\ target.x >= NaturalWidth => p.x = NaturalWidth
              /\ target.x <= 0 => p.x = 0
              /\ target.y >= NaturalHeight => p.y = NaturalHeight
              /\ target.y <= 0 => p.y = 0
              /\ Inside(target) => p = target

\* C4 witness: a corner dragged far beyond the top right of the image sits on (W, 0).
C4_Witness ==
    /\ moved # << >>
    /\ moved[1].x > NaturalWidth + 1 /\ moved[1].y < 0 - 1
    /\ points[dragInfo] = Pt(NaturalWidth, 0)

\* C5: during a corner session the three corners that are not dragged keep the
\* values of the snapshot taken at pointer-down.
C5_OnlyDraggedCornerMoves ==
    moved # << >> =>
        \A j \in 1..4 : j # dragInfo => points[j] = initialPointsRef[j]

\* C5 witness: in a second session corner 3 has moved away from its snapshot.
C5_Witness ==
    /\ moved # << >>
    /\ sessions = 2
    /\ dragInfo = 3
    /\ points[3] # initialPointsRef[3]

\* C6 (as stated): once the controller is idle again it holds no dragged-corner
\* index and no snapshot of the finished session.
C6_SessionDataDiscarded ==
    (Idle /\ lastEvent = "up") => (dragInfo = 0 /\ initialPointsRef = NoPoints)

\* C6 (amended): pointer-up makes the controller idle and leaves the session's
\* data as they are; while idle a pointer-move changes neither the
\* quadrilateral nor the scroll offset.
C6_PointerUpEndsSession ==
    /\ [](lastEvent = "up" => Idle)
    /\ [][lastEvent' = "up" => SessionData' = SessionData]_vars
    /\ [][(Idle /\ points # NoPoints) => (points' = points /\ scroll' = scroll)]_vars

\* C6 witness: after the pointer-up of a session that moved a corner and of a
\* panning session that scrolled, a pointer-move has arrived with the
\* controller idle and the data of both sessions still held.
C6_Witness ==
    /\ Idle /\ lastEvent = "move"
    /\ dragInfo # 0 /\ points # initialPointsRef
    /\ scroll # scrollStartRef

(***************************************************************************)
(* Properties of batch autocrop and undo (SpecBatch).                      *)
(***************************************************************************)
BatchEnded == batches > 0 /\ calls = {} /\ ~appIsProcessing
LogUrls(entry) == {e[1] : e \in entry}
Cropped(entry) == entry.outcome = "resolved" /\ LogUrls(entry.before) # LogUrls(entry.after)

\* C7: right after an undo that found a snapshot, the working set is the deep
\* copy taken when the batch started: every item has the url it had
\* immediately before the batch.
C7_UndoRestoresPreBatch ==
    lastOp = "undoRestored" =>
        /\ documents = JsonCopy(preBatch)
        /\ UrlsOf(documents) = UrlsOf(preBatch)

\* C7 witness: a batch that cropped an item has completed and has been undone.
C7_Witness ==
    /\ lastOp = "undoRestored"
    /\ BatchEnded
    /\ \E j \in DOMAIN batchLog : Cropped(batchLog[j])

\* C8: undo clears the one snapshot; an undo with no snapshot changes neither
\* the working set nor the snapshot; an undo directly after an undo is such a
\* no-op; once cleared, only the start of a batch brings a snapshot back; and
\* the start of a batch replaces the snapshot by a copy of the working set.
C8_UndoSingleLevel ==
    /\ [](lastOp = "undoRestored" => batchHistory = NoSnapshot)
    /\ [][lastOp' = "undoNoop" =>
            (batchHistory = NoSnapshot /\ documents' = documents
                /\ batchHistory' = batchHistory)]_vars
    /\ [][(lastOp = "undoRestored" /\ lastOp' \in {"undoRestored", "undoNoop"}) =>
            (lastOp' = "undoNoop" /\ documents' = documents)]_vars
    /\ [][(batchHistory = NoSnapshot /\ batchHistory' # NoSnapshot) =>
            lastOp' = "batchStart"]_vars
    /\ [][lastOp' = "batchStart" => batchHistory' = JsonCopy(documents)]_vars

\* C8 witness: after a batch that cropped an item, a second undo has found no
\* snapshot and the working set is still the restored one.
C8_Witness ==
    /\ lastOp = "undoNoop"
    /\ BatchEnded
    /\ \E j \in DOMAIN batchLog : Cropped(batchLog[j])
    /\ batchHistory = NoSnapshot
    /\ documents = JsonCopy(preBatch)

ExpectedTargets(docs) ==
    UNION {{<<docs[d].id, docs[d].items[k].id>> :
                k \in {k \in DOMAIN docs[d].items : docs[d].items[k].type = "image"}} :
            d \in {d \in DOMAIN docs : docs[d].selected}}

\* The items autoCropImage has been called for in the latest batch.
CallTargets ==
    {<<batchLog[j].docId, batchLog[j].itemId>> : j \in DOMAIN batchLog}
        \cup {<<tasks[k].docId, tasks[k].itemId>> : k \in calls}

\* C11: a batch calls autoCropImage only for image items of the groups selected
\* when it started, once each, and by its end for every one of them; a batch
\* started with no group selected changes nothing (no snapshot, no call), and
\* only such a batch returns early.
C11_BatchCoverage ==
    /\ [](batches > 0 =>
            /\ CallTargets \subseteq ExpectedTargets(preBatch)
            /\ Cardinality(CallTargets) = Len(batchLog) + Cardinality(calls)
            /\ calls = {} => CallTargets = ExpectedTargets(preBatch))
    /\ [][lastOp' = "batchNoop" =>
            /\ \A d \in DOMAIN documents : ~documents[d].selected
            /\ UNCHANGED <<documents, batchHistory, calls, batchLog, appIsProcessing>>]_vars
    /\ [][lastOp' = "batchStart" => \E d \in DOMAIN documents : documents[d].selected]_vars

\* C11 witness: a batch over a selected group holding an image and a pdf has
\* ended after exactly one call, for the image.
C11_Witness ==
    /\ BatchEnded
    /\ Len(batchLog) = 1
    /\ \E d \in DOMAIN preBatch :
          /\ preBatch[d].selected
          /\ Len(preBatch[d].items) = 2
          /\ \E k \in 1..2 : preBatch[d].items[k].type = "pdf"

(***************************************************************************)
(* Properties of the callers of detection (SpecFallback).                  *)
(***************************************************************************)
\* In the editor the quadrilateral is what detection resolved to, and the inset
\* default (a tenth of the width and height in from each side) after None.
EditorFallback ==
    (isOpen /\ detectLog # << >>) =>
        IF detectLog[1] # NoPoints THEN points = detectLog[1]
        ELSE /\ points = DefaultQuad
             /\ \A i \in 1..4 :
                   LET px == IF i \in {1, 4} THEN NaturalWidth ELSE 9 * NaturalWidth
                       py == IF i \in {1, 2} THEN NaturalHeight ELSE 9 * NaturalHeight
                   IN  /\ 10 * points[i].x <= px /\ px < 10 * (points[i].x + 1)
                       /\ 10 * points[i].y <= py /\ py < 10 * (points[i].y + 1)

NoneEntries == {j \in DOMAIN batchLog :
                    batchLog[j].outcome = "resolved" /\ batchLog[j].corners = NoPoints}

DetectEnded == cvFn = "detect" /\ cvPc = "done"

\* The call ended in one of the failures: the engine never got ready (no image
\* event happened), the image did not decode, or an OpenCV call threw.
DetectFailed ==
    \/ cvArgs = << >>
    \/ cvArgs[1].event = "error"
    \/ cvArgs[1].threw

IsQuad(pts) == Len(pts) = 4 /\ \A j \in 1..4 : pts[j] \in [x : Nat, y : Nat]

NothingFound == \A j \in DOMAIN stages : stages[j].cand = NoCandidate

\* C13 as stated: detectDocumentCorners never rejects; it resolves to None when
\* the engine does not get ready, the image does not decode or a step raises,
\* and to a 4-point quadrilateral in every other case.
C13_QuadOtherwise ==
    /\ cvFn = "detect" => cvOutcome # "rejected"
    /\ DetectEnded =>
          /\ cvOutcome = "resolved"
          /\ IF DetectFailed THEN cvResult = NoPoints ELSE IsQuad(cvResult)

\* C13, amended: detectDocumentCorners never rejects; it resolves to None when
\* the engine does not get ready, the image does not decode or a step raises;
\* in every other case it resolves to None when no pipeline that ran found a
\* candidate and to a 4-point quadrilateral when one did.
C13_DetectNeverRejects ==
    /\ cvFn = "detect" => cvOutcome # "rejected"
    /\ DetectEnded =>
          /\ cvOutcome = "resolved"
          /\ IF DetectFailed \/ NothingFound THEN cvResult = NoPoints ELSE IsQuad(cvResult)

\* A detection ended by a throwing OpenCV call after the first pipeline had
\* found nothing.
C13_Witness ==
    /\ DetectEnded
    /\ cvArgs # << >>
    /\ cvArgs[1].throwAt = <<"findContours", "B">>
    /\ Len(stages) = 1
    /\ cvOutcome = "resolved"
    /\ cvResult = NoPoints

Polling == cvPc \in {"check", "sleep"}

\* C14: waitForCV always terminates; a check that finds the engine ready ends
\* the wait with success at once; a check that does not find it ready starts
\* one more 100 ms wait while retries are left, so that at most 300 waits
\* (30 s) are made, and fails when none is left, i.e. after exactly 300 waits,
\* and detection turns that failure into None.
C14_BoundedPolling ==
    /\ [](Polling => /\ retries \in 0..MaxRetries
                     /\ waits = MaxRetries - retries
                     /\ waits * PollDelay <= MaxRetries * PollDelay)
    /\ [][(cvPc = "check" /\ cvPc' # "check") =>
            IF engineReady THEN cvPc' = "load" /\ cvOutcome' = "pending"
            ELSE IF waits < MaxRetries THEN cvPc' = "sleep" /\ cvOutcome' = "pending"
            ELSE /\ cvPc' = "done"
                 /\ cvFn = "detect" => (cvOutcome' = "resolved" /\ cvResult' = NoPoints)]_vars
    /\ Polling ~> (cvPc \in {"load", "done"})

\* The engine never got ready: the call failed after 300 waits and detection
\* gave None.
C14_Witness ==
    /\ DetectEnded
    /\ ~engineReady
    /\ cvArgs = << >>
    /\ waits = MaxRetries
    /\ retries = 0
    /\ cvOutcome = "resolved"
    /\ cvResult = NoPoints

\* The handler of img.onload ran to its end without a throw.
DetectCompleted == DetectEnded /\ cvArgs # << >> /\ cvArgs[1].event = "load" /\ ~cvArgs[1].threw

StageNames == [j \in DOMAIN stages |-> stages[j].stage]

StageContours(j) == IF stages[j].stage = "A" THEN cvArgs[1].contA ELSE cvArgs[1].contB

\* The contours of at least 1% of the resized image's area, and the
\* quadrilaterals among them.
Eligible(contours) == {i \in DOMAIN contours : 100 * contours[i].area >= TotalArea}
EligibleQuads(contours) == {i \in Eligible(contours) : contours[i].rows = 4}

Largest(contours, among) == {i \in among : \A k \in among : contours[k].area <= contours[i].area}

TakenFrom(cand, contours, among, shape) ==
    /\ cand # NoCandidate
    /\ cand[1].from \in Largest(contours, among)
    /\ cand[1].shape = shape
    /\ cand[1].pts = [k \in 1..4 |-> ToSource(IF shape = "approx"
                                                 THEN contours[cand[1].from].approx[k]
                                                 ELSE contours[cand[1].from].rect[k])]

\* C16 as stated: among the contours of at least 1% of the image area, a
\* largest one with exactly 4 approximation vertices gives the candidate when
\* there is one; the rotated rectangle of a largest contour is used only when
\* there is none; without a contour above the threshold there is no candidate.
C16_QuadPreferred ==
    \A j \in DOMAIN stages :
        LET contours == StageContours(j) IN
        IF Eligible(contours) = {} THEN stages[j].cand = NoCandidate
        ELSE IF EligibleQuads(contours) # {}
             THEN TakenFrom(stages[j].cand, contours, EligibleQuads(contours), "approx")
             ELSE TakenFrom(stages[j].cand, contours, Eligible(contours), "rect")

\* C16, amended: the candidate comes from the largest contour of at least 1%
\* of the image area, the first in contour order among equals: its 4-vertex
\* approximation when that has exactly 4 vertices, its rotated rectangle
\* otherwise, also when a smaller contour has 4 vertices; without a contour
\* above the threshold there is no candidate.
C16_LargestContourWins ==
    \A j \in DOMAIN stages :
        LET contours == StageContours(j)
            largest == Largest(contours, Eligible(contours))
        IN  IF Eligible(contours) = {} THEN stages[j].cand = NoCandidate
            ELSE /\ TakenFrom(stages[j].cand, contours, Eligible(contours),
                              IF contours[stages[j].cand[1].from].rows = 4 THEN "approx" ELSE "rect")
                 /\ \A k \in largest : stages[j].cand[1].from <= k

\* A pipeline saw a quadrilateral and a larger contour that is not one, and
\* took the rotated rectangle of the larger.
C16_Witness ==
    /\ DetectCompleted
    /\ \E j \in DOMAIN stages :
          /\ EligibleQuads(StageContours(j)) # {}
          /\ stages[j].cand # NoCandidate
          /\ stages[j].cand[1].shape = "rect"
          /\ cvResult = sortPoints(stages[j].cand[1].pts)

(***************************************************************************)
(* Buffers (SpecCv).                                                       *)
(***************************************************************************)
\* C17: when a detection or a rectification call has ended, by success,
\* early return or error, no mat it allocated is left undeleted.
C17_BuffersReleased == cvPc = "done" => live = {}

(***************************************************************************)
(* sortPoints (SpecSort).                                                  *)
(***************************************************************************)
SortEnded == cvFn = "sort" /\ cvPc = "done"

Perms4 == {p \in [1..4 -> 1..4] : \A i \in 1..4, j \in 1..4 : p[i] = p[j] => i = j}

Permuted(pts, p) == <<pts[p[1]], pts[p[2]], pts[p[3]], pts[p[4]]>>

\* C18: for 4 points without coordinate ties, sortPoints gives the same output
\* for all 24 orders of the points, and gives its own output back unchanged.
C18_SortIdempotent ==
    (SortEnded /\ NoTies(cvArgs[1].points)) =>
        /\ \A p \in Perms4 : sortPoints(Permuted(cvArgs[1].points, p)) = cvResult
        /\ sortPoints(cvResult) = cvResult
        /\ {cvResult[j] : j \in 1..4} = {cvArgs[1].points[j] : j \in 1..4}

\* Points without ties handed over in an order that is not the sorted one.
C18_Witness ==
    /\ SortEnded
    /\ NoTies(cvArgs[1].points)
    /\ cvResult # cvArgs[1].points
    /\ cvResult = <<Pt(0, 1), Pt(3, 0), Pt(2, 3), Pt(1, 2)>>

(***************************************************************************)
(* Rectification (SpecRectify).                                            *)
(***************************************************************************)
\* img.onload of a rectification call ran.
CropLoaded == cvFn = "crop" /\ cvPc = "done" /\ cvArgs # << >> /\ cvArgs[1].event = "load"

\* [TL, TR, BR, BL] as the sort defines it: the first two are not below the
\* last two, the first is not right of the second, the third not left of the
\* fourth.
Canonical(q) ==
    /\ \A i \in {1, 2}, j \in {3, 4} : q[i].y <= q[j].y
    /\ q[1].x <= q[2].x
    /\ q[3].x >= q[4].x

SamePlanForEveryOrder ==
    /\ \A p \in Perms4 : CropPlan(Permuted(cvArgs[1].points, p)) = cvArgs[1].plan
    /\ Canonical(cvArgs[1].plan.srcCoords)
    /\ {cvArgs[1].plan.srcCoords[j] : j \in 1..4} = {cvArgs[1].points[j] : j \in 1..4}

Area2(q) ==
    LET cross(i, j) == q[i].x * q[j].y - q[j].x * q[i].y
        sum == cross(1, 2) + cross(2, 3) + cross(3, 4) + cross(4, 1)
    IN  IF sum < 0 THEN 0 - sum ELSE sum

\* The quadrilateral to be warped has no width, no height or no area.
Degenerate(plan) ==
    \/ plan.targetW2 = 0
    \/ plan.targetH2 = 0
    \/ Area2(plan.srcCoords) = 0

\* C20: a rectification handed a quadrilateral without width, height or area
\* does not warp: it resolves, without an error, to the image it was given.
C20_DegenerateReturnsInput ==
    (CropLoaded /\ Degenerate(cvArgs[1].plan)) =>
        /\ cvOutcome = "resolved"
        /\ cvResult = CropUrl

\* C21: a rectification of a quadrilateral with positive area gives an image
\* of round(targetW) x round(targetH) pixels, both at least 1.
C21_OutputSizeRounded ==
    (CropLoaded /\ cvOutcome = "resolved" /\ Area2(cvArgs[1].plan.srcCoords) > 0) =>
        /\ cvArgs[1].size = <<RoundPx(cvArgs[1].plan.targetW2), RoundPx(cvArgs[1].plan.targetH2)>>
        /\ cvArgs[1].size[1] >= 1
        /\ cvArgs[1].size[2] >= 1

(***************************************************************************)
(* Rotation and the enhanced image (SpecSave).                             *)
(***************************************************************************)
\* An enhancement made by the last Save has resolved.
EnhanceDone == saveLog # << >> /\ saveLog[1].canvas # << >>

\* C22: a rotation button changes the rotation by exactly +90 or -90, with no
\* reset and no wrap (the rotation is a multiple of 90 that can pass 360), and
\* the canvas of an enhancement with an accumulated rotation of k * 90 degrees
\* is (w, h) for even k and (h, w) for odd k, so four steps one way give (w, h).
C22_RotationAccumulates ==
    /\ [][(isOpen /\ isOpen' /\ rotation' # rotation) =>
             (rotation' = rotation + RotationStep \/ rotation' = rotation - RotationStep)]_vars
    /\ [](rotation % RotationStep = 0)
    /\ [](EnhanceDone =>
            /\ saveLog[1].rotation % RotationStep = 0
            /\ saveLog[1].canvas =
                  IF (saveLog[1].rotation \div RotationStep) % 2 = 0
                  THEN <<NaturalWidth, NaturalHeight>>
                  ELSE <<NaturalHeight, NaturalWidth>>)

\* An enhancement after four steps to the left: the rotation handed over is
\* -360 and the canvas has the size of the image.
C22_Witness ==
    /\ EnhanceDone
    /\ saveLog[1].rotation = 0 - 4 * RotationStep
    /\ saveLog[1].calls[1].rotation = 0 - 4 * RotationStep
    /\ saveLog[1].canvas = <<NaturalWidth, NaturalHeight>>

(***************************************************************************)
(* The zoom buttons (SpecZoom).                                            *)
(***************************************************************************)
\* k * 0.2 for k in 0..25, exactly (k times the double 0.2).
Fifth(k) == <<k * ZoomStep[1] + (k * ZoomStep[2]) \div Limb, (k * ZoomStep[2]) % Limb>>

\* z is within 2^-48 of k * 0.2.
Near(z, k) ==
    LET f == Fifth(k)
    IN  /\ z[1] - f[1] \in {-1, 0, 1}
        /\ (z[1] - f[1]) * Limb + (z[2] - f[2]) \in (0 - 2 ^ 7)..(2 ^ 7)

ZoomInRange == ~DblLess(zoom, ZoomMin) /\ ~DblLess(ZoomMax, zoom)

\* C23 as stated: the zoom stays within [0.2, 5.0], a zoom-out at 0.2 and a
\* zoom-in at 5.0 leave it unchanged, and every other zoom-out gives z - 0.2
\* and every other zoom-in z + 0.2.
C23_StepsExact ==
    /\ [](isOpen => ZoomInRange)
    /\ [][ZoomOut => zoom' = IF zoom = ZoomMin THEN zoom ELSE DblSub(zoom, ZoomStep)]_vars
    /\ [][ZoomIn => zoom' = IF zoom = ZoomMax THEN zoom ELSE DblAdd(zoom, ZoomStep)]_vars

\* C23: the zoom stays within [0.2, 5.0] and within rounding error (2^-48) of
\* a multiple of 0.2; a zoom-out takes it to the next lower multiple and a
\* zoom-in to the next higher one, except that a zoom-out from within that
\* error of 0.2 gives exactly 0.2 and a zoom-in from within that error of 5.0
\* gives exactly 5.0.
C23_StepsUpToRounding ==
    /\ [](isOpen => ZoomInRange /\ Near(zoom, FifthsOf(zoom)))
    /\ [][ZoomOut => IF FifthsOf(zoom) = FifthsOf(ZoomMin) THEN zoom' = ZoomMin
                     ELSE FifthsOf(zoom') = FifthsOf(zoom) - 1]_vars
    /\ [][ZoomIn => IF FifthsOf(zoom) = FifthsOf(ZoomMax) THEN zoom' = ZoomMax
                    ELSE FifthsOf(zoom') = FifthsOf(zoom) + 1]_vars

\* Four zoom-outs from 1.0 have given 0.20000000000000007, one unit of the
\* last place above 0.2: the next zoom-out is clamped.
C23_Witness == isOpen /\ zoom # ZoomMin /\ FifthsOf(zoom) = FifthsOf(ZoomMin)

(***************************************************************************)
(* The viewport and the pointer sessions (SpecView, SpecModifier,          *)
(* SpecPointer, SpecEntryFair).                                            *)
(***************************************************************************)
\* C24: a zoom button changes the zoom and nothing else, and a pointer move
\* while panning changes the scroll offset and nothing else: the points, the
\* enhancement parameters and the active tool are the same after both.
C24_ViewportDisplayOnly ==
    /\ [][(ZoomIn \/ ZoomOut) =>
             UNCHANGED <<points, brightness, contrast, rotation, activeTool, scroll,
                         isDragging, isPanning, dragInfo, initialPointsRef>>]_vars
    /\ [][(isPanning /\ \E p \in ViewMoves : handleWindowMouseMove(p.x, p.y)) =>
             UNCHANGED <<points, brightness, contrast, rotation, activeTool, zoom,
                         isDragging, isPanning, dragInfo, initialPointsRef>>]_vars

\* The pointer has moved while panning at a zoom other than 1.0: the scroll
\* offset has left its snapshot and the points are those that were detected.
C24_Witness ==
    /\ isPanning /\ lastEvent = "move"
    /\ scroll # scrollStartRef
    /\ zoom # ZoomInitial
    /\ points \in DetectedQuads

\* C25, for an editor that shows a quadrilateral and is not processing: a
\* pointer-down while the tool is none or while the Space key is held starts
\* a panning session with the pointer position and the scroll offset as its
\* snapshot, and starts no corner drag.
C25_PanOnNoneOrModifier ==
    [][\A p \in PointerDowns :
         (/\ handleMouseDown(p.x, p.y)
          /\ points # NoPoints /\ ~isProcessing
          /\ (activeTool = "none" \/ spaceHeld)) =>
            /\ isPanning'
            /\ panStartRef' = p
            /\ scrollStartRef' = scroll
            /\ UNCHANGED <<isDragging, dragInfo, dragStartPosRef, initialPointsRef>>]_vars

\* The corners within the pick radius of a pointer position.
HitSet(p) == {i \in 1..4 : CornerHit(i, p.x, p.y)}

\* C26: a pointer-down while the tool is crop starts a corner drag for the
\* lowest-numbered corner within the pick radius, with the pointer position
\* and all four points as its snapshot; with no corner within the radius no
\* session starts and nothing of the controller changes.
C26_FirstCornerHit ==
    [][\A p \in ViewDowns :
         (handleMouseDown(p.x, p.y) /\ activeTool = "crop" /\ points # NoPoints) =>
            IF HitSet(p) = {}
            THEN UNCHANGED <<points, isDragging, dragInfo, isPanning, panStartRef,
                             scrollStartRef, dragStartPosRef, initialPointsRef, scroll,
                             activeTool, zoom, sessions, brightness, contrast, rotation>>
            ELSE /\ isDragging'
                 /\ dragInfo' \in HitSet(p)
                 /\ \A j \in HitSet(p) : dragInfo' <= j
                 /\ dragStartPosRef' = p
                 /\ initialPointsRef' = points
                 /\ UNCHANGED <<points, isPanning, panStartRef, scrollStartRef, scroll>>]_vars

\* A drag of the first corner has started at a position that has another
\* corner within the radius too.
C26_Witness ==
    /\ isDragging /\ lastEvent = "down"
    /\ dragInfo = 1
    /\ initialPointsRef = points
    /\ Cardinality(HitSet(dragStartPosRef)) >= 2

\* The squared distance on screen between a pointer position and corner i.
ScreenDist2(i, p) ==
    LET dx == p.x - (ToScreen(points[i].x) + imgRectLeft)
        dy == p.y - (ToScreen(points[i].y) + imgRectTop)
    IN  dx * dx + dy * dy

\* C27: at every zoom a pointer-down while the tool is crop starts a corner
\* drag exactly when some corner is less than 25 screen pixels from the pointer.
C27_ConstantScreenTolerance ==
    [][\A p \in ViewDowns :
         (/\ handleMouseDown(p.x, p.y)
          /\ activeTool = "crop" /\ points # NoPoints /\ ~isProcessing) =>
            ((sessions' # sessions)
                <=> \E i \in 1..4 : ScreenDist2(i, p) < HandleRadius * HandleRadius)]_vars

\* C28: with the tool at crop, no quadrilateral and the image loaded, detection
\* is running and the quadrilateral is eventually set; it is set to what the
\* detection resolved to, or to the default quadrilateral when that is null;
\* detection starts only when there is no quadrilateral.
C28_DetectionOnCropEntry ==
    /\ [](isOpen /\ activeTool = "crop" /\ points = NoPoints /\ imageLoaded => detecting)
    /\ (isOpen /\ activeTool = "crop" /\ points = NoPoints /\ imageLoaded)
            ~> (points # NoPoints)
    /\ [][(detecting /\ ~detecting' /\ isOpen') =>
             points' = IF detectLog'[1] # NoPoints THEN detectLog'[1] ELSE DefaultQuad]_vars
    /\ [][(~detecting /\ detecting') => points = NoPoints]_vars

\* Detection resolved to null and the default quadrilateral is in place.
C28_Witness ==
    /\ isOpen /\ activeTool = "crop" /\ imageLoaded /\ ~detecting
    /\ detectLog = << NoPoints >>
    /\ points = DefaultQuad

\* C29: a corner drag and a panning session are never both in progress.
C29_DragStateExclusive == ~(isDragging /\ isPanning)

(***************************************************************************)
(* Undo while a batch is running (SpecBatch).                              *)
(***************************************************************************)
\* A task of the running batch settles.
TaskSettles == appIsProcessing /\ Len(batchLog') = Len(batchLog) + 1

\* C30: once the snapshot of a running batch has been used by an undo, no
\* task of that batch that settles later changes the working set.
C30_UndoOutlastsBatch ==
    [][(TaskSettles /\ batchHistory = NoSnapshot) => documents' = documents]_vars

(***************************************************************************)
(* The end of a batch (SpecBatch).                                         *)
(***************************************************************************)
\* C31: at the step that ends a batch (isProcessing goes back to false) no
\* item of the working set is left with processing = true, whatever was done
\* to the working set while the batch ran.
C31_NoItemLeftProcessing ==
    [][(appIsProcessing /\ ~appIsProcessing') =>
          \A i \in AllItems(documents') : i.processing # "true"]_vars

SaveFailed == saveLog # << >> /\ saveLog[1].failed

\* C33: when the transform awaited by Save rejects, onUpdate is not called
\* and the item keeps its url, the editor stays open with its quadrilateral,
\* tool, enhancement parameters and image, and isProcessing is false again.
C33_FailedSaveChangesNothing ==
    /\ [][\A p \in pendingSaves : (SaveRejects(p) /\ ~p.stale) =>
            /\ UNCHANGED <<onUpdateArg, itemUrl, isOpen, points, activeTool,
                           brightness, contrast, rotation, history, currentIndex>>
            /\ isOpen
            /\ ~isProcessing']_vars
    /\ [](SaveFailed /\ isOpen /\ pendingSaves = {} /\ ~detecting => ~isProcessing)

\* A rectification has failed: the editor is open on the same image with the
\* quadrilateral and the tool of the Save, and nothing was handed to onUpdate.
C33_Witness ==
    /\ SaveFailed
    /\ isOpen /\ ~isProcessing
    /\ saveLog[1].calls[1].fn = "applyPerspectiveCrop"
    /\ points = saveLog[1].points /\ points # NoPoints
    /\ activeTool = "crop"
    /\ currentImage = saveLog[1].image
    /\ onUpdateArg = NoUrl

(***************************************************************************)
(* Completion of a Save (SpecSettleFair).                                  *)
(***************************************************************************)
\* handleSave has set isProcessing and reached its await; neither onUpdate
\* nor the alert has happened yet.
SaveAwaiting ==
    /\ isOpen /\ isProcessing
    /\ saveLog # << >> /\ saveLog[1].calls # << >>
    /\ saveLog[1].canvas = << >> /\ ~saveLog[1].failed

\* C34: after handleSave has set isProcessing, isProcessing eventually becomes
\* false again, for the rectify and for the enhance branch.
C34_SaveEventuallyCompletes == SaveAwaiting ~> ~isProcessing

(***************************************************************************)
(* Pointer-down while processing or without a quadrilateral (SpecGuard).   *)
(***************************************************************************)
\* C35: a pointer-down delivered while isProcessing (a detection or a Save in
\* flight) or while points is null starts neither a drag nor a pan (the drag
\* and pan flags and the session refs keep their values) and changes no other
\* state of the component.
C35_DownIgnored ==
    [][\A p \in PointerDowns :
         (handleMouseDown(p.x, p.y) /\ (isProcessing \/ points = NoPoints)) =>
            UNCHANGED <<isOpen, itemUrl, history, currentIndex, isProcessing,
                           activeTool, points, isDragging, dragInfo, brightness,
                           contrast, rotation, zoom, isPanning, isSpacePressed,
                           panStartRef, scrollStartRef, dragStartPosRef,
                           initialPointsRef, scroll, imageLoaded, sessions,
                           pendingSaves, onUpdateArg>>]_vars

\* A pointer-down on a corner handle was ignored during a rectifying Save.
C35_Witness ==
    /\ lastEvent = "ignored"
    /\ isProcessing /\ pendingSaves # {}
    /\ points # NoPoints /\ activeTool = "crop"
    /\ ~isDragging /\ ~isPanning /\ sessions = 0

\* A pointer-down was ignored during the detection, before any quadrilateral.
C35_WitnessDetecting ==
    /\ lastEvent = "ignored"
    /\ isProcessing /\ detecting /\ points = NoPoints
    /\ ~isDragging /\ ~isPanning

(***************************************************************************)
(* The state of a newly opened editor (SpecReopen).                        *)
(***************************************************************************)
\* The session state of a new EditorModal showing the image url.
FreshSession(url) ==
    /\ history = <<url>> /\ currentIndex = 1
    /\ points = NoPoints
    /\ activeTool = "crop"
    /\ zoom = ZoomInitial
    /\ brightness = DefaultBrightness /\ contrast = DefaultContrast
    /\ rotation = 0
    /\ ~isDragging /\ ~isPanning /\ dragInfo = 0
    /\ dragStartPosRef = Pt(0, 0) /\ initialPointsRef = NoPoints
    /\ panStartRef = Pt(0, 0) /\ scrollStartRef = [left |-> 0, top |-> 0]
    /\ scroll = [left |-> 0, top |-> 0]
    /\ ~isProcessing /\ ~isSpacePressed
    /\ ~imageLoaded

\* C36: each time the editor is opened for an item the whole session state
\* has its defaults (history = [item url], no quadrilateral, tool crop, zoom 1,
\* brightness = contrast = 100, rotation 0, no drag, no pan, no drag-session
\* data), whatever the session before it did.
C36_OpenResetsSession ==
    [][isOpen' /\ ~isOpen => FreshSession(itemUrl)']_vars

\* The editor has been opened again on the image that a session before it
\* saved (a rectification: that session had a quadrilateral).
C36_Witness ==
    /\ isOpen /\ onUpdateArg # NoUrl
    /\ onUpdateArg[Len(onUpdateArg)] = "crop"
    /\ FreshSession(onUpdateArg)
    /\ itemUrl = onUpdateArg

(***************************************************************************)
(* The order sortPoints gives to the corners of a convex quadrilateral     *)
(* (SpecSort).                                                             *)
(***************************************************************************)
\* (a - o) x (b - o): its sign tells on which side of the line o -> a lies b.
Turn(o, a, b) == (a.x - o.x) * (b.y - o.y) - (a.y - o.y) * (b.x - o.x)

\* q lists the vertices of a convex quadrilateral in the order of its
\* boundary: walking q[1], q[2], q[3], q[4] and back turns the same way at
\* every vertex.
BoundaryOrder(q) ==
    LET t(i) == Turn(q[i], q[(i % 4) + 1], q[((i + 1) % 4) + 1])
    IN  \/ \A i \in 1..4 : t(i) > 0
        \/ \A i \in 1..4 : t(i) < 0

\* The 4 points are the vertices of a convex quadrilateral.
ConvexQuad(pts) == \E p \in Perms4 : BoundaryOrder(Permuted(pts, p))

\* C37: for the vertices of a convex quadrilateral with pairwise-distinct x
\* and pairwise-distinct y, sortPoints returns them in a cyclic order of the
\* boundary, so that [TL, TR, BR, BL] is not self-intersecting.
C37_SortGivesBoundaryOrder ==
    (SortEnded /\ NoTies(cvArgs[1].points) /\ ConvexQuad(cvArgs[1].points)) =>
        BoundaryOrder(cvResult)

(***************************************************************************)
(* handleMoveItem (SpecMove).                                              *)
(***************************************************************************)
\* The positions of the item with this id, as <<group, index>>.
PlacesOf(docs, itemId) ==
    {<<d, k>> \in (DOMAIN docs) \X (1..MoveItems) :
        k \in DOMAIN docs[d].items /\ docs[d].items[k].id = itemId}

\* The items of a group without the item with this id, in their order.
Others(items, itemId) ==
    LET keep == {k \in DOMAIN items : items[k].id # itemId}
        nth(n) == CHOOSE k \in keep : Cardinality({j \in keep : j < k}) = n - 1
    IN  [n \in 1..Cardinality(keep) |-> items[nth(n)]]

\* What a move has to give, told from the working sets before and after.
MoveEffect(before, after, sourceDocId, itemId, targetDocId, targetIndex) ==
    LET src == {d \in DOMAIN before : before[d].id = sourceDocId}
        tgt == {d \in DOMAIN before : before[d].id = targetDocId}
        found == /\ src # {} /\ tgt # {}
                 /\ \E d \in src : PlacesOf(before, itemId) \cap ({d} \X (1..MoveItems)) # {}
    IN  IF ~found THEN after = before
        ELSE /\ DOMAIN after = DOMAIN before
             /\ \A d \in DOMAIN before :
                    /\ after[d].id = before[d].id
                    /\ after[d].selected = before[d].selected
                    /\ Others(after[d].items, itemId) = Others(before[d].items, itemId)
             /\ \E place \in PlacesOf(after, itemId) :
                    /\ PlacesOf(after, itemId) = {place}
                    /\ place[1] \in tgt
                    /\ \E old \in PlacesOf(before, itemId) :
                           after[place[1]].items[place[2]] = before[old[1]].items[old[2]]
                    /\ LET len == Len(Others(before[place[1]].items, itemId))
                       IN  place[2] = IF targetIndex = -1 \/ targetIndex >= len
                                      THEN len + 1 ELSE targetIndex + 1

\* C38: after handleMoveItem the moved item is in the working set exactly
\* once, in the target group at targetIndex (last when targetIndex is null or
\* not less than the target's length), the other items are where they were in
\* the same order, and nothing changes when the source group, the target
\* group or the item is not found.
C38_MovePreservesItems ==
    [][\A a \in MoveArgs :
          handleMoveItem(a[1], a[2], a[3], a[4]) =>
              MoveEffect(documents, documents', a[1], a[2], a[3], a[4])]_vars

\* Item 1 was moved from the top of a group of 3 to its middle (or item 2
\* from the middle to the top): the items were added in the order 1, 2, 3.
C38_Witness ==
    /\ moves = 1
    /\ Len(documents[1].items) = 3
    /\ documents[1].items[1].id = 2 /\ documents[1].items[2].id = 1
    /\ documents[1].items[3].id = 3
    /\ documents[1].selected

(***************************************************************************)
(* originalUrl and Reset (SpecOriginal).                                   *)
(***************************************************************************)
\* The url the item with this id was added with (handleAddItem).
AddedUrl(id) == NewItem(id, "image").url

\* C39: no operation changes an item's originalUrl after the item is added,
\* so after any sequence of operations handleResetToOriginal sets the item's
\* url to the url it was added with and clears its backupUrl.
C39_ResetGivesAddedUrl ==
    /\ [](\A i \in AllItems(documents) : i.originalUrl = AddedUrl(i.id))
    /\ [][\A d \in DOMAIN documents : \A k \in DOMAIN documents[d].items :
             handleResetToOriginal(documents[d].id, documents[d].items[k].id) =>
                 /\ documents'[d].items[k].url = AddedUrl(documents[d].items[k].id)
                 /\ documents'[d].items[k].backupUrl = NoUrl
                 /\ documents'[d].items[k].id = documents[d].items[k].id]_vars

\* Reset has just put back the url an item was added with, after a batch
\* autocrop and with a rotation of the item still awaiting its image.
C39_Witness ==
    /\ lastOp = "reset"
    /\ batches > 0
    /\ \E c \in closures : c.kind = "rotate" /\ c.item.url # c.item.originalUrl
    /\ \A i \in AllItems(documents) : i.url = AddedUrl(i.id) /\ i.backupUrl = NoUrl

(***************************************************************************)
(* The number of document groups (SpecGroups).                             *)
(***************************************************************************)
\* C40: the working set always holds at least one document group, whatever
\* the sequence of add-group, delete-group, clear-all, batch autocrop and
\* undo, and deleting the only group changes nothing.
C40_AtLeastOneGroup ==
    /\ [](Len(documents) >= 1)
    /\ [][\A id \in 1..(MaxDocIds + 1) :
             (handleDeleteDocument(id) /\ Len(documents) = 1) =>
                 documents' = documents]_vars

\* The first group was deleted, and then the deletion of the group that was
\* left was refused, after a batch over both groups.
C40_Witness ==
    /\ lastOp = "deleteNoop"
    /\ Len(documents) = 1
    /\ documents[1].id # 1
    /\ batchHistory # NoSnapshot /\ Len(batchHistory) = 2

====
